---- MODULE Spec2Model ----
(***************************************************************************)
(* Model of taskg (Mgldvd/task-gui): the TaskModel browser state machine   *)
(* of internal/app and the task discovery helpers of internal/taskmeta.    *)
(*                                                                         *)
(* Go strings are modelled as sequences of one-character strings, so that  *)
(* splitting, lower-casing, substring search, byte-wise comparison and     *)
(* len() are computed as the code computes them.                           *)
(***************************************************************************)
EXTENDS Integers, Sequences, FiniteSets, TLC

VARIABLES m, pending, session, probe

vars == <<m, pending, session, probe>>

(***************************************************************************)
(* Bounds of the model.                                                    *)
(***************************************************************************)
\* longest search query typed (the text input itself allows CharLimit runes)
MaxQueryLen == 1
\* most refreshes in flight at once
MaxPending == 1

(***************************************************************************)
(* Go helpers: max, min, strings.                                          *)
(***************************************************************************)
max(a, b) == IF a > b THEN a ELSE b

min(a, b) == IF a < b THEN a ELSE b

\* the letters used, upper and lower case
Uppers == <<"A", "B", "D", "G", "I", "J", "K", "M", "N", "O", "P", "Q", "R",
            "S", "U", "W", "X", "Z">>

Lowers == <<"a", "b", "d", "g", "i", "j", "k", "m", "n", "o", "p", "q", "r",
            "s", "u", "w", "x", "z">>

\* the characters used, in increasing byte order
Ascii == <<" ", "-", "/">> \o Uppers \o Lowers

\* the byte order of each character
OrdOf == [c \in {Ascii[i] : i \in 1..Len(Ascii)} |->
            CHOOSE i \in 1..Len(Ascii) : Ascii[i] = c]

Ord(c) == OrdOf[c]

\* unicode.ToLower on the characters used
LowerOf == [c \in {Ascii[i] : i \in 1..Len(Ascii)} |->
              IF \E i \in 1..Len(Uppers) : Uppers[i] = c
              THEN Lowers[CHOOSE i \in 1..Len(Uppers) : Uppers[i] = c]
              ELSE c]

LowerChar(c) == LowerOf[c]

\* unicode.ToUpper on the characters used
UpperOf == [c \in {Ascii[i] : i \in 1..Len(Ascii)} |->
              IF \E i \in 1..Len(Lowers) : Lowers[i] = c
              THEN Uppers[CHOOSE i \in 1..Len(Lowers) : Lowers[i] = c]
              ELSE c]

UpperChar(c) == UpperOf[c]

\* strings.ToLower
ToLower(s) == <<>> \o [i \in 1..Len(s) |-> LowerChar(s[i])]

\* strings.ToUpper
ToUpper(s) == <<>> \o [i \in 1..Len(s) |-> UpperChar(s[i])]

\* the elements of a sequence
Range(s) == {s[i] : i \in 1..Len(s)}

\* Go's < on strings: byte-wise lexicographic order
StrLess(a, b) ==
    \E k \in 1..(Len(b)) :
        /\ \A i \in 1..(k-1) : i <= Len(a) /\ a[i] = b[i]
        /\ \/ k = Len(a) + 1
           \/ k <= Len(a) /\ Ord(a[k]) < Ord(b[k])

\* strings.Contains(hay, q)
Contains(hay, q) ==
    \E i \in 0..(Len(hay) - Len(q)) :
        \A j \in 1..Len(q) : hay[i + j] = q[j]

RECURSIVE Join(_, _)
\* strings.Join(parts, sep)
Join(parts, sep) ==
    IF Len(parts) = 0 THEN <<>>
    ELSE IF Len(parts) = 1 THEN parts[1]
    ELSE parts[1] \o sep \o Join(Tail(parts), sep)

\* index of the first "-" of a name, 0 when there is none
FirstDash(name) ==
    IF \E i \in 1..Len(name) : name[i] = "-"
    THEN CHOOSE i \in 1..Len(name) :
            name[i] = "-" /\ \A j \in 1..(i-1) : name[j] # "-"
    ELSE 0

MainLabel == <<"m", "a", "i", "n">>

\* a label taken up to the last "-" of a name instead of the first
TabPrefixLastDash(name) ==
    IF \E i \in 1..Len(name) : name[i] = "-"
    THEN SubSeq(name, 1, (CHOOSE i \in 1..Len(name) :
                            name[i] = "-" /\ \A j \in (i+1)..Len(name) : name[j] # "-") - 1)
    ELSE MainLabel

\* the tab label of a task name: strings.SplitN(name, "-", 2)
TabPrefix(name) ==
    IF FirstDash(name) > 0 THEN SubSeq(name, 1, FirstDash(name) - 1)
    ELSE MainLabel

\* TaskModel.titleCase
titleCase(s) ==
    IF Len(s) = 0 THEN s
    ELSE ToUpper(SubSeq(s, 1, 1)) \o ToLower(SubSeq(s, 2, Len(s)))

(***************************************************************************)
(* sort.SliceStable: a stable insertion sort by a strict order.            *)
(***************************************************************************)
LessByLine(a, b) == a.Line < b.Line

LessByName(a, b) == StrLess(a.Name, b.Name)

RECURSIVE InsertByEager(_, _, _)
\* an insertion that puts an element before the elements of equal key
InsertByEager(s, x, byName) ==
    IF Len(s) = 0 THEN <<x>>
    ELSE IF (IF byName THEN ~LessByName(s[Len(s)], x) ELSE ~LessByLine(s[Len(s)], x))
         THEN Append(InsertByEager(SubSeq(s, 1, Len(s) - 1), x, byName), s[Len(s)])
         ELSE Append(s, x)

RECURSIVE InsertBy(_, _, _)
InsertBy(s, x, byName) ==
    IF Len(s) = 0 THEN <<x>>
    ELSE IF (IF byName THEN LessByName(x, s[Len(s)]) ELSE LessByLine(x, s[Len(s)]))
         THEN Append(InsertBy(SubSeq(s, 1, Len(s) - 1), x, byName), s[Len(s)])
         ELSE Append(s, x)

RECURSIVE SortStable(_, _)
SortStable(s, byName) ==
    IF Len(s) = 0 THEN <<>>
    ELSE InsertBy(SortStable(SubSeq(s, 1, Len(s) - 1), byName), s[Len(s)], byName)

\* sort.Strings
RECURSIVE InsertStr(_, _)
InsertStr(s, x) ==
    IF Len(s) = 0 THEN <<x>>
    ELSE IF StrLess(x, s[Len(s)])
         THEN Append(InsertStr(SubSeq(s, 1, Len(s) - 1), x), s[Len(s)])
         ELSE Append(s, x)

RECURSIVE SortStrings(_)
SortStrings(s) ==
    IF Len(s) = 0 THEN <<>>
    ELSE InsertStr(SortStrings(SubSeq(s, 1, Len(s) - 1)), s[Len(s)])

(***************************************************************************)
(* taskmeta.Task and the TaskModel struct.  A TaskModel is a record with   *)
(* the fields of the Go struct that carry state: tasks, originalTasks,     *)
(* filteredTasks, selected, searchMode, searchQuery, mouseEnabled, width,  *)
(* height, lastCommand, statusMessage, projectRoot, errorMessage,          *)
(* quitAfterSelect, tabOffset, headerIndent, listOffset, itemHeight, tabs, *)
(* activeTab, tabTasks, sortMode.  searchInput holds the same text as      *)
(* searchQuery whenever it is read (it is set on every entry to search     *)
(* mode and copied to searchQuery after every edit), so its value is not   *)
(* kept apart; statusTimeout is wall-clock time read only by View.         *)
(***************************************************************************)
Task(name, desc, cmds, line) ==
    [Name |-> name, Desc |-> desc, Cmds |-> cmds, Line |-> line]

\* layout constants of visibleListHeight
containerOverhead == 4
headerHeight == 2
tabsHeight == 3
searchHeight == 3
statusHeight == 1
footerHeight == 3
\* fallbacks of visibleListHeight
DefaultHeight == 24
MinInner == 10
FallbackItemHeight == 7

\* measureItemHeight: the sample entry is two lines of text in a CommandBox
\* with a top and a bottom border line, plus the spacing newline: 4 lines
\* (the sample text is narrower than the minimum inner width 40, so it
\* never wraps).
measureItemHeight == 4

\* the cached item height (measured on first use)
ItemHeightOf(mm) ==
    IF mm.itemHeight = 0
    THEN (IF measureItemHeight <= 0 THEN FallbackItemHeight ELSE measureItemHeight)
    ELSE mm.itemHeight

\* TaskModel.visibleListHeight
visibleListHeight(mm) ==
    LET avail == IF mm.height <= 0 THEN DefaultHeight ELSE mm.height
        inner0 == avail - containerOverhead
        inner == IF inner0 < MinInner THEN MinInner ELSE inner0
        overhead == headerHeight + statusHeight + footerHeight
                    + (IF Len(mm.tabs) > 1 THEN tabsHeight ELSE 0)
                    + (IF mm.searchMode \/ mm.searchQuery # <<>> THEN searchHeight ELSE 0)
        remaining == inner - overhead
        items == remaining \div ItemHeightOf(mm)
    IN  IF remaining < ItemHeightOf(mm) THEN 1
        ELSE IF items < 1 THEN 1 ELSE items

\* a scroll adjustment that follows the selection upward only
ensureSelectionVisibleUpOnly(mm) ==
    LET listHeight == visibleListHeight(mm)
        o1 == IF mm.selected < mm.listOffset THEN mm.selected ELSE mm.listOffset
        maxOffset == max(0, Len(mm.filteredTasks) - listHeight)
        o3 == IF o1 > maxOffset THEN maxOffset ELSE o1
    IN  [mm EXCEPT !.listOffset = max(0, o3), !.itemHeight = ItemHeightOf(mm)]

\* TaskModel.ensureSelectionVisible
ensureSelectionVisible(mm) ==
    LET listHeight == visibleListHeight(mm)
        o1 == IF mm.selected < mm.listOffset THEN mm.selected ELSE mm.listOffset
        o2 == IF mm.selected >= o1 + listHeight THEN mm.selected - listHeight + 1 ELSE o1
        maxOffset == max(0, Len(mm.filteredTasks) - listHeight)
        o3 == IF o2 > maxOffset THEN maxOffset ELSE o2
        o4 == IF o3 < 0 THEN 0 ELSE o3
    IN  [mm EXCEPT !.listOffset = o4, !.itemHeight = ItemHeightOf(mm)]

\* a haystack that joins name, description and commands with no separator
HaystackUnseparated(t) == ToLower(t.Name \o t.Desc \o Join(t.Cmds, <<>>))

\* the haystack of a task: name, description and commands joined by spaces
Haystack(t) ==
    ToLower(t.Name \o <<" ">> \o t.Desc \o <<" ">> \o Join(t.Cmds, <<" ">>))

\* whether a task matches a (non-empty) query
Matches(t, query) == Contains(Haystack(t), ToLower(query))

RECURSIVE SelectMatching(_, _)
SelectMatching(src, query) ==
    IF Len(src) = 0 THEN <<>>
    ELSE IF Matches(src[1], query)
         THEN <<src[1]>> \o SelectMatching(Tail(src), query)
         ELSE SelectMatching(Tail(src), query)

\* the filter loop of updateFilter
Filter(src, query) ==
    IF query = <<>> THEN src ELSE SelectMatching(src, query)

\* m.tabTasks[label], nil (empty) for a label that is no key
TabMembers(mm, label) ==
    IF label \in DOMAIN mm.tabTasks THEN mm.tabTasks[label] ELSE <<>>

\* a filter scoped to the active tab even when a query is set
BaseTasksTabOnly(mm) == TabMembers(mm, mm.activeTab)

\* a filter that always starts from the full task set
BaseTasksAll(mm) == mm.tasks

\* the list updateFilter filters
BaseTasks(mm) ==
    IF mm.searchQuery # <<>> THEN mm.tasks ELSE TabMembers(mm, mm.activeTab)

\* TaskModel.updateFilter
updateFilter(mm) ==
    LET res == Filter(BaseTasks(mm), mm.searchQuery)
        sel == IF mm.selected >= Len(res) THEN max(0, Len(res) - 1) ELSE mm.selected
    IN  ensureSelectionVisible([mm EXCEPT !.filteredTasks = res, !.selected = sel])

(***************************************************************************)
(* Tabs.  Indices (selected, listOffset, tabOffset, tab indices) are       *)
(* 0-based as in the Go code; sequence element i of the code is s[i+1].    *)
(***************************************************************************)
RECURSIVE FirstSeenPrefixes(_)
\* the prefixes of a task list in first-seen order (prefixes/prefixSet)
FirstSeenPrefixes(src) ==
    IF Len(src) = 0 THEN <<>>
    ELSE LET before == FirstSeenPrefixes(SubSeq(src, 1, Len(src) - 1))
             p == TabPrefix(src[Len(src)].Name)
         IN  IF \E i \in 1..Len(before) : before[i] = p THEN before
             ELSE Append(before, p)

RECURSIVE WithPrefix(_, _)
\* the tasks of a list with a given prefix, in list order (prefixMap[prefix])
WithPrefix(src, p) ==
    IF Len(src) = 0 THEN <<>>
    ELSE IF TabPrefix(src[1].Name) = p
         THEN <<src[1]>> \o WithPrefix(Tail(src), p)
         ELSE WithPrefix(Tail(src), p)

\* 0-based index of a label in a list of labels, -1 when absent
IndexOf(labels, label) ==
    IF \E i \in 1..Len(labels) : labels[i] = label
    THEN (CHOOSE i \in 1..Len(labels) :
             labels[i] = label /\ \A j \in 1..(i-1) : labels[j] # label) - 1
    ELSE -1

\* "main" moved to the front when it is present and not first
HoistMain(prefixes) ==
    LET mainIndex == IndexOf(prefixes, MainLabel)
    IN  IF mainIndex > 0
        THEN <<MainLabel>> \o SubSeq(prefixes, 1, mainIndex)
                           \o SubSeq(prefixes, mainIndex + 2, Len(prefixes))
        ELSE prefixes

\* the task list buildTabs groups
TasksToProcess(mm) == mm.originalTasks

\* a member order that ignores the sort mode
SortGroupByNameAlways(group, sortMode) == SortStable(group, TRUE)

\* the member order of one tab under a sort mode
SortGroup(group, sortMode) ==
    IF sortMode = "alpha" THEN SortStable(group, TRUE) ELSE SortStable(group, FALSE)

\* the tab order under a sort mode
TabOrder(prefixes, sortMode) ==
    HoistMain(IF sortMode = "alpha" THEN SortStrings(prefixes) ELSE prefixes)

\* a rebuild of the tabs that never resets the active tab
buildTabsKeepingActive(mm) ==
    LET src == mm.originalTasks
        prefixes == FirstSeenPrefixes(src)
        labels == {prefixes[i] : i \in 1..Len(prefixes)}
    IN  [mm EXCEPT !.tabs = TabOrder(prefixes, mm.sortMode),
                   !.tabTasks = [p \in labels |->
                                    SortGroup(WithPrefix(src, p), mm.sortMode)]]

\* TaskModel.buildTabs
buildTabs(mm) ==
    LET src == TasksToProcess(mm)
        prefixes == FirstSeenPrefixes(src)
        labels == {prefixes[i] : i \in 1..Len(prefixes)}
        prefixMap == [p \in labels |-> SortGroup(WithPrefix(src, p), mm.sortMode)]
        tabs == TabOrder(prefixes, mm.sortMode)
        foundActive == \E i \in 1..Len(tabs) : tabs[i] = mm.activeTab
    IN  [mm EXCEPT !.tabs = tabs,
                   !.tabTasks = prefixMap,
                   !.activeTab = IF ~foundActive /\ Len(tabs) > 0 THEN tabs[1] ELSE @]

\* width reserved per tab beside its name
TabChrome == 8
\* columns ensureTabVisible leaves for borders and arrows
TabStripMargin == 14
\* least strip width ensureTabVisible assumes
MinStripWidth == 20
\* first column of the tab strip in getTabIndexAtX
TabStripLeft == 2

\* the rendered name of a tab
TabName(tab) == IF tab = MainLabel THEN <<"M", "a", "i", "n">> ELSE titleCase(tab)

RECURSIVE CountFit(_, _, _, _)
\* the loop of ensureTabVisible counting the tabs that fit, from tab i (1-based)
CountFit(tabs, i, currentWidth, availableWidth) ==
    IF i > Len(tabs) THEN 0
    ELSE LET tabWidth == Len(TabName(tabs[i])) + TabChrome
         IN  IF currentWidth + tabWidth > availableWidth THEN 0
             ELSE 1 + CountFit(tabs, i + 1, currentWidth + tabWidth, availableWidth)

\* TaskModel.ensureTabVisible
ensureTabVisible(mm, tabIndex) ==
    IF Len(mm.tabs) <= 1 THEN mm
    ELSE LET avail0 == mm.width - TabStripMargin
             availableWidth == IF avail0 < MinStripWidth THEN MinStripWidth ELSE avail0
             count0 == CountFit(mm.tabs, 1, 0, availableWidth)
             visibleCount == IF count0 = 0 THEN 1 ELSE count0
             o1 == IF tabIndex < mm.tabOffset THEN tabIndex
                   ELSE IF tabIndex >= mm.tabOffset + visibleCount
                        THEN tabIndex - visibleCount + 1
                        ELSE mm.tabOffset
             maxOffset == max(0, Len(mm.tabs) - visibleCount)
             o2 == IF o1 > maxOffset THEN maxOffset ELSE o1
             o3 == IF o2 < 0 THEN 0 ELSE o2
         IN  [mm EXCEPT !.tabOffset = o3]

RECURSIVE TabAt(_, _, _, _)
\* the loop of getTabIndexAtX from tab i (0-based) at column pos
TabAt(tabs, i, pos, x) ==
    IF i >= Len(tabs) THEN -1
    ELSE LET tabWidth == Len(tabs[i + 1]) + TabChrome
         IN  IF x >= pos /\ x < pos + tabWidth THEN i
             ELSE TabAt(tabs, i + 1, pos + tabWidth, x)

\* TaskModel.getTabIndexAtX
getTabIndexAtX(mm, x) ==
    IF Len(mm.tabs) <= 1 THEN -1
    ELSE TabAt(mm.tabs, mm.tabOffset, TabStripLeft + mm.headerIndent, x)

\* moveToNextTab wrapping from the last tab to the first
moveToNextTabWrapping(mm) ==
    IF Len(mm.tabs) <= 1 THEN mm
    ELSE LET currentIndex == IndexOf(mm.tabs, mm.activeTab)
             nextIndex == (currentIndex + 1) % Len(mm.tabs)
         IN  updateFilter(ensureTabVisible(
                 [mm EXCEPT !.activeTab = mm.tabs[nextIndex + 1]], nextIndex))

\* TaskModel.moveToNextTab
moveToNextTab(mm) ==
    IF Len(mm.tabs) <= 1 THEN mm
    ELSE LET currentIndex == IndexOf(mm.tabs, mm.activeTab)
             moved == IF currentIndex >= 0 /\ currentIndex < Len(mm.tabs) - 1
                      THEN ensureTabVisible(
                               [mm EXCEPT !.activeTab = mm.tabs[currentIndex + 2]],
                               currentIndex + 1)
                      ELSE mm
         IN  updateFilter(moved)

\* TaskModel.moveToPrevTab
moveToPrevTab(mm) ==
    IF Len(mm.tabs) <= 1 THEN mm
    ELSE LET currentIndex == IndexOf(mm.tabs, mm.activeTab)
             moved == IF currentIndex >= 0 /\ currentIndex > 0
                      THEN ensureTabVisible(
                               [mm EXCEPT !.activeTab = mm.tabs[currentIndex]],
                               currentIndex - 1)
                      ELSE mm
         IN  updateFilter(moved)

\* 0-based index of the first task of a list with a name, -1 when absent
IndexOfName(tasks, name) ==
    IF \E i \in 1..Len(tasks) : tasks[i].Name = name
    THEN (CHOOSE i \in 1..Len(tasks) :
             tasks[i].Name = name /\ \A j \in 1..(i-1) : tasks[j].Name # name) - 1
    ELSE -1

\* a toggle that never leaves "alpha"
FlipSortModeStuck(sortMode) == "alpha"

\* the sort mode after a toggle
FlipSortMode(sortMode) == IF sortMode = "file" THEN "alpha" ELSE "file"

\* TaskModel.toggleSortMode
toggleSortMode(mm) ==
    LET selectedTaskName ==
            IF Len(mm.filteredTasks) > 0 /\ mm.selected >= 0
               /\ mm.selected < Len(mm.filteredTasks)
            THEN mm.filteredTasks[mm.selected + 1].Name
            ELSE <<>>
        m1 == updateFilter(buildTabs([mm EXCEPT !.sortMode = FlipSortMode(@)]))
        found == IndexOfName(m1.filteredTasks, selectedTaskName)
        m2 == IF selectedTaskName # <<>> /\ found >= 0
              THEN [m1 EXCEPT !.selected = found]
              ELSE m1
    IN  ensureSelectionVisible(m2)

\* a status notice: its text and, for "Refreshed - %d tasks found", the count
\* (-1 when the text carries no count)
Status(text, count) == [text |-> text, count |-> count]

\* TaskModel.setStatus (the timeout is wall-clock time, not modelled)
setStatus(mm, message) == [mm EXCEPT !.statusMessage = message]

(***************************************************************************)
(* A handler returns the model and a command: "nil", "quit" (tea.Quit),    *)
(* "refresh" (refreshCmd), "tick" (tickCmd), or "panic" when the handler   *)
(* indexes a slice out of range (a Go run-time panic, which ends the       *)
(* program).                                                               *)
(***************************************************************************)
Ret(mm, cmd) == [model |-> mm, cmd |-> cmd]

\* a commit that always takes the first task of the visible list
markForExecutionFirst(mm) ==
    IF Len(mm.filteredTasks) = 0 THEN Ret(mm, "nil")
    ELSE Ret([mm EXCEPT !.lastCommand = mm.filteredTasks[1].Name,
                        !.quitAfterSelect = TRUE], "quit")

\* TaskModel.markForExecution
markForExecution(mm) ==
    IF Len(mm.filteredTasks) = 0 THEN Ret(mm, "nil")
    ELSE IF mm.selected < 0 \/ mm.selected >= Len(mm.filteredTasks)
         THEN Ret(mm, "panic")
         ELSE Ret([mm EXCEPT !.lastCommand = mm.filteredTasks[mm.selected + 1].Name,
                             !.quitAfterSelect = TRUE], "quit")

\* TaskModel.ShouldRun
ShouldRun(mm) == mm.quitAfterSelect /\ mm.lastCommand # <<>>

\* TaskModel.TaskToRun
TaskToRun(mm) == mm.lastCommand

(***************************************************************************)
(* Key events.  A key message is [Type, Str]: Type "KeyRunes" for a single *)
(* typed rune (Str is the rune, also the value of msg.String()), "Key"     *)
(* for a named key (Str is msg.String()).  The space bar is the rune " ".  *)
(***************************************************************************)
RuneKey(r) == [Type |-> "KeyRunes", Str |-> r]

NamedKey(name) == [Type |-> "Key", Str |-> name]

\* unicode.IsPrint(r) && !unicode.IsSpace(r) on the characters used
PrintableNonSpace(r) == r # " "

\* a reservation of the quit and refresh letters only
ReservedRuneQuitRefresh(r) == r \in {"q", "r"}

\* the reserved single-letter keys of handleKeys
ReservedRune(r) == r \in {"q", "j", "k", "r"}

\* a text input that Enter empties
TextInputUpdateEnterClears(value, msg) ==
    IF msg.Type = "KeyRunes" THEN Append(value, msg.Str)
    ELSE IF msg.Str = "enter" THEN <<>>
    ELSE IF msg.Str = "backspace" /\ Len(value) > 0
         THEN SubSeq(value, 1, Len(value) - 1)
         ELSE value

\* textinput's Update on the value (cursor at the end): a rune is inserted,
\* backspace deletes, every other key leaves the text as it is
TextInputUpdate(value, msg) ==
    IF msg.Type = "KeyRunes" THEN Append(value, msg.Str)
    ELSE IF msg.Str = "backspace" /\ Len(value) > 0
         THEN SubSeq(value, 1, Len(value) - 1)
         ELSE value

\* the navigation keys (both branches of handleKeys share these rules)
NavUp(mm) ==
    IF mm.selected > 0
    THEN ensureSelectionVisible([mm EXCEPT !.selected = @ - 1])
    ELSE mm

NavDown(mm) ==
    IF mm.selected < Len(mm.filteredTasks) - 1
    THEN ensureSelectionVisible([mm EXCEPT !.selected = @ + 1])
    ELSE mm

NavPgUp(mm) ==
    ensureSelectionVisible(
        [mm EXCEPT !.selected = max(0, mm.selected - visibleListHeight(mm))])

NavPgDown(mm) ==
    ensureSelectionVisible(
        [mm EXCEPT !.selected = min(Len(mm.filteredTasks) - 1,
                                    mm.selected + visibleListHeight(mm))])

NavHome(mm) == ensureSelectionVisible([mm EXCEPT !.selected = 0])

NavEnd(mm) ==
    ensureSelectionVisible([mm EXCEPT !.selected = Len(mm.filteredTasks) - 1])

\* handleKeys while m.searchMode, for a key that is no navigation key: the
\* text input takes the key, then Esc and Enter are handled
handleKeysSearchText(mm, msg) ==
    LET m1 == updateFilter(
                  [mm EXCEPT !.searchQuery = TextInputUpdate(@, msg)])
        m2 == IF msg.Str = "esc"
              THEN updateFilter([m1 EXCEPT !.searchMode = FALSE,
                                           !.searchQuery = <<>>])
              ELSE m1
        m3 == IF msg.Str = "enter" THEN [m2 EXCEPT !.searchMode = FALSE]
              ELSE m2
    IN  IF msg.Str = "enter" /\ Len(m3.filteredTasks) > 0
        THEN markForExecution(m3)
        ELSE Ret(m3, "nil")

\* a search mode whose text input takes every key
handleKeysSearchCapturing(mm, msg) == handleKeysSearchText(mm, msg)

\* handleKeys, the branch taken while m.searchMode
handleKeysSearch(mm, msg) ==
    CASE msg.Str \in {"up", "k"} -> Ret(NavUp(mm), "nil")
      [] msg.Str \in {"down", "j"} -> Ret(NavDown(mm), "nil")
      [] msg.Str = "pgup" -> Ret(NavPgUp(mm), "nil")
      [] msg.Str = "pgdown" -> Ret(NavPgDown(mm), "nil")
      [] msg.Str = "home" -> Ret(NavHome(mm), "nil")
      [] msg.Str = "end" -> Ret(NavEnd(mm), "nil")
      [] OTHER -> handleKeysSearchText(mm, msg)

\* a type-to-search without reserved keys
AutoSearchUnreserved(msg) ==
    msg.Type = "KeyRunes" /\ PrintableNonSpace(msg.Str)

\* whether a key typed while browsing starts a search (type-to-search)
AutoSearch(msg) ==
    /\ msg.Type = "KeyRunes"
    /\ ~ReservedRune(msg.Str)
    /\ PrintableNonSpace(msg.Str)

\* an Esc that ends the session whatever the query
handleKeysBrowseEscQuitting(mm) == Ret(mm, "quit")

\* handleKeys, case "esc" while not in search mode
handleKeysBrowseEsc(mm) ==
    IF mm.searchQuery # <<>>
    THEN Ret(updateFilter([mm EXCEPT !.searchQuery = <<>>]), "nil")
    ELSE Ret(mm, "quit")

\* handleKeys, the part run while not in search mode
handleKeysBrowse(mm, msg) ==
    IF AutoSearch(msg)
    THEN Ret(updateFilter([mm EXCEPT !.searchMode = TRUE,
                                     !.searchQuery = <<msg.Str>>]), "nil")
    ELSE CASE msg.Str = "ctrl+s" ->
                LET m1 == toggleSortMode(mm)
                IN  Ret(setStatus(m1, Status(IF m1.sortMode = "alpha" THEN "Sorted by alpha"
                                           ELSE "Sorted by file", -1)), "nil")
           [] msg.Str \in {"q", "ctrl+c"} -> Ret(mm, "quit")
           [] msg.Str \in {"r", "ctrl+r"} ->
                Ret(setStatus(mm, Status("Refreshing tasks...", -1)), "refresh")
           [] msg.Str \in {"up", "k"} -> Ret(NavUp(mm), "nil")
           [] msg.Str \in {"down", "j"} -> Ret(NavDown(mm), "nil")
           [] msg.Str = "pgup" -> Ret(NavPgUp(mm), "nil")
           [] msg.Str = "pgdown" -> Ret(NavPgDown(mm), "nil")
           [] msg.Str = "home" -> Ret(NavHome(mm), "nil")
           [] msg.Str = "end" -> Ret(NavEnd(mm), "nil")
           [] msg.Str = "enter" -> markForExecution(mm)
           [] msg.Str = "/" ->
                Ret([mm EXCEPT !.searchMode = TRUE, !.searchQuery = <<>>], "nil")
           [] msg.Str = "esc" -> handleKeysBrowseEsc(mm)
           [] msg.Str \in {"tab", "right"} ->
                Ret(IF Len(mm.tabs) > 1 THEN moveToNextTab(mm) ELSE mm, "nil")
           [] msg.Str \in {"shift+tab", "left"} ->
                Ret(IF Len(mm.tabs) > 1 THEN moveToPrevTab(mm) ELSE mm, "nil")
           [] OTHER -> Ret(mm, "nil")

\* a key handler without the search-mode branch
handleKeysIgnoringMode(mm, msg) == handleKeysBrowse(mm, msg)

\* TaskModel.handleKeys
handleKeys(mm, msg) ==
    IF mm.searchMode THEN handleKeysSearch(mm, msg) ELSE handleKeysBrowse(mm, msg)

(***************************************************************************)
(* Mouse events: [Type, X, Y], Type "MouseLeft" (a press of the left       *)
(* button) or "MouseMotion" (the case tea.MouseLeft | tea.MouseMotion).    *)
(***************************************************************************)
\* first screen row handleMouse takes as list area
ListTop == 4
\* the screen row of the tab strip in handleMouse
TabRow == 2

\* the list row of a screen row
AdjustY(mm, y) ==
    (y - ListTop) - (IF mm.searchMode \/ mm.searchQuery # <<>> THEN 1 ELSE 0)

\* TaskModel.handleMouse
handleMouse(mm, msg) ==
    CASE msg.Type = "MouseLeft" ->
           IF msg.Y = TabRow /\ Len(mm.tabs) > 1
           THEN LET tabIndex == getTabIndexAtX(mm, msg.X)
                IN  IF tabIndex >= 0 /\ tabIndex < Len(mm.tabs)
                    THEN Ret(updateFilter(
                                 [mm EXCEPT !.activeTab = mm.tabs[tabIndex + 1]]), "nil")
                    ELSE Ret(mm, "nil")
           ELSE IF msg.Y >= ListTop
                THEN IF AdjustY(mm, msg.Y) >= 0
                        /\ AdjustY(mm, msg.Y) < Len(mm.filteredTasks)
                     THEN Ret([mm EXCEPT !.selected = AdjustY(mm, msg.Y)], "nil")
                     ELSE Ret(mm, "nil")
                ELSE Ret(mm, "nil")
      [] msg.Type = "MouseMotion" ->
           IF /\ msg.Y >= ListTop
              /\ AdjustY(mm, msg.Y) >= 0
              /\ AdjustY(mm, msg.Y) < Len(mm.filteredTasks)
              /\ AdjustY(mm, msg.Y) = mm.selected
           THEN markForExecution(mm)
           ELSE Ret(mm, "nil")
      [] OTHER -> Ret(mm, "nil")

\* a resize that stores the size without adjusting the scroll offset
UpdateWindowSizeNoClamp(mm, w, h) ==
    Ret([mm EXCEPT !.width = w, !.height = h], "nil")

\* Update, case tea.WindowSizeMsg
UpdateWindowSize(mm, w, h) ==
    Ret(ensureSelectionVisible([mm EXCEPT !.width = w, !.height = h]), "nil")

\* Update, case tea.MouseMsg
UpdateMouse(mm, msg) ==
    IF ~mm.mouseEnabled THEN Ret(mm, "nil") ELSE handleMouse(mm, msg)

\* a refresh handler that takes the delivered list whatever the error
UpdateRefreshIgnoringErr(mm, msg) ==
    Ret(setStatus(updateFilter(buildTabs([mm EXCEPT !.tasks = msg.tasks])),
                  Status(IF msg.err THEN "Refresh failed" ELSE "Refreshed",
                         IF msg.err THEN -1 ELSE Len(msg.tasks))), "nil")

\* Update, case refreshMsg: msg is [tasks, err], err FALSE for a nil error
UpdateRefresh(mm, msg) ==
    IF msg.err
    THEN Ret(setStatus(mm, Status("Refresh failed", -1)), "nil")
    ELSE Ret(setStatus(updateFilter(buildTabs([mm EXCEPT !.tasks = msg.tasks])),
                       Status("Refreshed", Len(msg.tasks))), "nil")

\* NewTaskModel
NewTaskModel(tasks, mouseEnabled) ==
    LET sorted == SortStable(tasks, FALSE)
        m0 == [tasks |-> sorted, originalTasks |-> sorted, filteredTasks |-> sorted,
               selected |-> 0, searchMode |-> FALSE, searchQuery |-> <<>>,
               mouseEnabled |-> mouseEnabled, width |-> 0, height |-> 0,
               lastCommand |-> <<>>, statusMessage |-> Status("", -1), projectRoot |-> "",
               errorMessage |-> "", quitAfterSelect |-> FALSE, tabOffset |-> 0,
               headerIndent |-> 0, listOffset |-> 0, itemHeight |-> 0,
               tabs |-> <<>>, activeTab |-> <<>>, tabTasks |-> <<>>,
               sortMode |-> "file"]
    IN  updateFilter(buildTabs(m0))

(***************************************************************************)
(* Discovery (package taskmeta) and start-up (rootCmd.Run).  The outcome   *)
(* of a listing strategy is a record [ok, err, tasks]: ok is "err == nil", *)
(* err is the text "%v" prints for the error ("<nil>" for a nil error).    *)
(* Error texts and messages are TLA+ strings, built as the code builds     *)
(* them.                                                                   *)
(***************************************************************************)
Ok(tasks) == [ok |-> TRUE, err |-> "<nil>", tasks |-> tasks]

Fail(e) == [ok |-> FALSE, err |-> e, tasks |-> <<>>]

\* the text of the error exec.LookPath("task") returns
LookPathErr == "exec: \"task\": executable file not found in $PATH"

\* DiscoverTasks: the error returned when the task binary is missing
toolMissing == "task binary not found in PATH: " \o LookPathErr

\* a composed error that reports a missing tool whatever failed
discoveryFailedAsToolMissing(errJ, errP, errY) == toolMissing

\* DiscoverTasks: the error composed when no strategy gave a task
discoveryFailed(errJ, errP, errY) ==
    "failed to discover tasks (json:" \o errJ \o " plain:" \o errP
        \o " yaml:" \o errY \o ")"

\* a test that takes every listing returned without error
UsableIfNoError(o) == o.ok

\* DiscoverTasks: "err == nil && len(tasks) > 0"
Usable(o) == o.ok /\ Len(o.tasks) > 0

\* 0-based index of the last task of a list with a name, -1 when absent:
\* the entry idx[name] of enrichTaskCmds
LastIndexOfName(tasks, name) ==
    IF \E i \in 1..Len(tasks) : tasks[i].Name = name
    THEN (CHOOSE i \in 1..Len(tasks) :
             tasks[i].Name = name /\ \A j \in (i+1)..Len(tasks) : tasks[j].Name # name) - 1
    ELSE -1

\* the fields of t filled from a parsed task p: only an empty field is filled
FillFrom(t, p) ==
    [t EXCEPT !.Cmds = IF Len(t.Cmds) = 0 /\ Len(p.Cmds) > 0 THEN p.Cmds ELSE @,
              !.Desc = IF t.Desc = <<>> /\ p.Desc # <<>> THEN p.Desc ELSE @]

RECURSIVE EnrichWith(_, _)
\* the loop of enrichTaskCmds over the parsed tasks
EnrichWith(tasks, parsed) ==
    IF Len(parsed) = 0 THEN tasks
    ELSE LET i == LastIndexOfName(tasks, parsed[1].Name)
             step == IF i >= 0
                     THEN [tasks EXCEPT ![i + 1] = FillFrom(@, parsed[1])]
                     ELSE tasks
         IN  EnrichWith(step, Tail(parsed))

\* an enrichment that gives up the listing when the parse fails
enrichTaskCmdsAborting(tasks, yaml) ==
    IF ~yaml.ok THEN <<>> ELSE EnrichWith(tasks, yaml.tasks)

\* enrichTaskCmds: yaml is the outcome of parseTaskfileYAML
enrichTaskCmds(tasks, yaml) ==
    IF ~yaml.ok THEN tasks ELSE EnrichWith(tasks, yaml.tasks)

\* the step DiscoverTasks takes after a listing strategy a
NextStepSkippingPlain(a, usable) ==
    IF usable THEN "start" ELSE IF a = "json" THEN "yaml" ELSE "start"

\* the step DiscoverTasks takes after strategy a ("json", "plain", "yaml"):
\* it returns on a usable listing and after the last strategy
NextStep(a, usable) ==
    IF usable THEN "start"
    ELSE CASE a = "json" -> "plain" [] a = "plain" -> "yaml" [] OTHER -> "start"

\* rootCmd.Run: the messages of the start-up states
NoTaskfileMsg ==
    "No Taskfile found in this or parent directories. Use --project to point elsewhere or create a Taskfile.yml."

NoTasksMsg == "No tasks discovered in Taskfile."

EnumerateFailedMsg(err) == "Failed to enumerate tasks: " \o err

\* rootCmd.Run: the model handed to the event loop, from whether a root was
\* found and from the result of DiscoverTasks
RunModel(found, res, mouseEnabled) ==
    IF ~found
    THEN [NewTaskModel(<<>>, mouseEnabled) EXCEPT !.errorMessage = NoTaskfileMsg]
    ELSE IF ~res.ok
    THEN [NewTaskModel(<<>>, mouseEnabled) EXCEPT
             !.projectRoot = "root", !.errorMessage = EnumerateFailedMsg(res.err)]
    ELSE IF Len(res.tasks) = 0
    THEN [NewTaskModel(<<>>, mouseEnabled) EXCEPT
             !.projectRoot = "root", !.errorMessage = NoTasksMsg]
    ELSE [NewTaskModel(res.tasks, mouseEnabled) EXCEPT !.projectRoot = "root"]

(***************************************************************************)
(* The projects of the model.  A listing is what DiscoverTasks returns:    *)
(* the task CLI lists tasks by name and gives each its line in the file.   *)
(***************************************************************************)
S_up == <<"u", "p">>
S_go == <<"g", "o">>
S_ax == <<"a", "x">>
S_wx == <<"w", "-", "x">>
S_dbs == <<"d", "b", "-", "s">>
S_dbm == <<"d", "b", "-", "m">>
S_dbz == <<"d", "b", "-", "z">>
S_Db == <<"D", "b">>
S_dashx == <<"-", "x">>
S_mainx == <<"m", "a", "i", "n", "-", "x">>
S_dbsm == <<"d", "b", "-", "s", "-", "m">>

\* project A: w-x, up, db-s, db-m declared in this order
ListA == << Task(S_dbm, <<>>, <<S_go>>, 4), Task(S_dbs, <<>>, <<>>, 3),
            Task(S_up, S_Db, <<S_go, S_ax>>, 2), Task(S_wx, <<>>, <<>>, 1) >>

\* project B: up, go, ax declared in this order, no prefixes
ListB == << Task(S_ax, <<>>, <<>>, 3), Task(S_go, <<>>, <<>>, 2),
            Task(S_up, <<>>, <<S_go>>, 1) >>

\* project A after an edit: w-x removed, db-z added at the end
ListC == << Task(S_dbm, <<>>, <<S_go>>, 3), Task(S_dbs, <<>>, <<>>, 2),
            Task(S_dbz, <<>>, <<>>, 4), Task(S_up, S_Db, <<S_go, S_ax>>, 1) >>

\* the listings a session can start with
StartLists == {ListA, ListB}

\* the listings a later discovery can deliver
Deliveries == {ListC}

\* the models rootCmd.Run hands to the event loop: no Taskfile found (with
\* and without mouse support), a failed discovery, and each start listing
StartModels ==
    {RunModel(FALSE, Fail(""), me) : me \in BOOLEAN}
    \cup {RunModel(TRUE, Fail(discoveryFailed("exit status 1", "exit status 1",
                                               "no tasks map in Taskfile")), TRUE)}
    \cup {RunModel(TRUE, Ok(l), TRUE) : l \in StartLists}

\* the keys pressed
TypedRunes == {"d", " ", "q", "j", "k", "r", "/"}

NamedKeys == {"up", "down", "pgup", "pgdown", "home", "end", "enter", "esc",
              "tab", "shift+tab", "left", "right", "ctrl+s", "ctrl+c", "ctrl+r",
              "backspace"}

KeyMsgs == {RuneKey(r) : r \in TypedRunes} \cup {NamedKey(k) : k \in NamedKeys}

\* the terminal sizes and pointer positions used
Widths == {40}
Heights == {10, 24}
MouseXs == {0, 2, 14}
MouseYs == {3, 4, 5, 6}

MouseMsg(type, x, y) == [Type |-> type, X |-> x, Y |-> y]

\* presses on the tab row, presses and drags on the rows below it
MouseMsgs ==
    {MouseMsg("MouseLeft", x, TabRow) : x \in MouseXs}
    \cup {MouseMsg(t, 0, y) : t \in {"MouseLeft", "MouseMotion"}, y \in MouseYs}

\* the outcomes of the background discovery of refreshCmd
RefreshMsgs(mm) ==
    IF mm.projectRoot = "" THEN {[tasks |-> <<>>, err |-> TRUE]}
    ELSE {[tasks |-> <<>>, err |-> TRUE]}
         \cup {[tasks |-> l, err |-> FALSE] : l \in Deliveries}

(***************************************************************************)
(* The event loop: events are handled one at a time while the session      *)
(* runs.  session is "running", "quit" (tea.Quit was returned) or "panic". *)
(***************************************************************************)
NoProbe == [kind |-> "none"]

Init ==
    /\ m \in StartModels
    /\ pending = 0
    /\ session = "running"
    /\ probe = NoProbe

\* the effect of a handler's result on the loop
Apply(r) ==
    /\ m' = r.model
    /\ session' = CASE r.cmd = "quit" -> "quit"
                    [] r.cmd = "panic" -> "panic"
                    [] OTHER -> "running"
    /\ pending' = IF r.cmd = "refresh" THEN pending + 1 ELSE pending
    /\ UNCHANGED probe

\* a key press
KeyEvent ==
    /\ session = "running"
    /\ \E msg \in KeyMsgs :
        \E r \in {handleKeys(m, msg)} :
            /\ Len(r.model.searchQuery) <= MaxQueryLen
            /\ r.cmd = "refresh" => pending < MaxPending
            /\ Apply(r)

\* a pointer press or drag
MouseEvent ==
    /\ session = "running"
    /\ \E msg \in MouseMsgs : \E r \in {UpdateMouse(m, msg)} : Apply(r)

\* a terminal resize
ResizeEvent ==
    /\ session = "running"
    /\ \E w \in Widths, h \in Heights : \E r \in {UpdateWindowSize(m, w, h)} : Apply(r)

\* the periodic tick: Update returns the model as it is
TickEvent ==
    /\ session = "running"
    /\ Apply(Ret(m, "tick"))

\* the completion of a refresh in flight
RefreshEvent ==
    /\ session = "running"
    /\ pending > 0
    /\ \E msg \in RefreshMsgs(m) :
        /\ m' = UpdateRefresh(m, msg).model
        /\ pending' = pending - 1
        /\ UNCHANGED <<session, probe>>

Next == KeyEvent \/ MouseEvent \/ ResizeEvent \/ TickEvent \/ RefreshEvent

Spec == Init /\ [][Next]_vars

(***************************************************************************)
(* Specifications of the pure functions: Init draws the inputs from        *)
(* bounded sets and one action applies the code to them.  The browser is   *)
(* idle in these specifications.                                           *)
(***************************************************************************)
\* longest source list handed to the filter
MaxProbeLen == 2
\* longest query handed to the filter
MaxProbeQuery == 2
\* most tasks declared in a partitioned task set
MaxDecl == 3

\* all sequences over S of length at most n
SeqsUpTo(S, n) == UNION {[1..k -> S] : k \in 0..n}

IdleModel == NewTaskModel(<<>>, FALSE)

\* the tasks and the query characters the filter is tried on
FilterTasks == { Task(S_up, S_Db, <<S_go, S_ax>>, 1),
                 Task(S_dbs, <<>>, <<>>, 2),
                 Task(S_go, <<>>, <<S_up>>, 3) }

FilterChars == {"p", "d", "D", " "}

InitFilter ==
    /\ m = IdleModel
    /\ pending = 0
    /\ session = "probe"
    /\ probe \in [kind : {"filter"}, src : SeqsUpTo(FilterTasks, MaxProbeLen),
                  query : SeqsUpTo(FilterChars, MaxProbeQuery) \ {<<>>},
                  out : {<<>>}, done : {FALSE}]

\* updateFilter run on the source list with the query set
ApplyFilter ==
    /\ probe.kind = "filter" /\ ~probe.done
    /\ probe' = [probe EXCEPT
                    !.out = updateFilter([IdleModel EXCEPT
                                !.tasks = probe.src,
                                !.searchQuery = probe.query]).filteredTasks,
                    !.done = TRUE]
    /\ UNCHANGED <<m, pending, session>>

NextFilter == ApplyFilter

SpecFilter == InitFilter /\ [][NextFilter]_vars

\* the task names partitioned, and how a listing numbers its lines:
\* "asc" (line = position), "zero" (no line numbers, as in a plain listing),
\* "desc" (listed in reverse declaration order)
PartNames == {S_up, S_go, S_dbs, S_dbm, S_wx, S_dashx, S_mainx, S_dbsm}

LineModes == {"asc", "zero", "desc"}

\* the listings: task names without repetition
Listings == {l \in SeqsUpTo(PartNames, MaxDecl) :
                \A i, j \in 1..Len(l) : i # j => l[i] # l[j]}

LineOf(mode, i, n) ==
    CASE mode = "asc" -> i [] mode = "zero" -> 0 [] OTHER -> n + 1 - i

ListingTasks(names, mode) ==
    [i \in 1..Len(names) |-> Task(names[i], <<>>, <<>>, LineOf(mode, i, Len(names)))]

InitPartition ==
    /\ m = IdleModel
    /\ pending = 0
    /\ session = "probe"
    /\ probe \in [kind : {"partition"}, names : Listings, mode : LineModes,
                  done : {FALSE}]

\* NewTaskModel (sort by line, buildTabs) run on the listing
ApplyPartition ==
    /\ probe.kind = "partition" /\ ~probe.done
    /\ probe' = [probe EXCEPT !.done = TRUE]
    /\ m' = NewTaskModel(ListingTasks(probe.names, probe.mode), FALSE)
    /\ UNCHANGED <<pending, session>>

NextPartition == ApplyPartition

SpecPartition == InitPartition /\ [][NextPartition]_vars

\* most rows of a list handed to ensureSelectionVisible
MaxRows == 4
\* largest scroll offset ensureSelectionVisible starts from (the least is -1)
MaxStartOffset == 5

\* terminal heights that give 1, 2 and 3 visible rows
VisibleHeights == {10, 18, 22}

\* a visible list of n rows
RowTasks(n) == [i \in 1..n |-> Task(S_up, <<>>, <<>>, i)]

InitVisible ==
    /\ m = IdleModel
    /\ pending = 0
    /\ session = "probe"
    /\ probe \in {p \in [kind : {"visible"}, rows : 1..MaxRows,
                          selected : 0..(MaxRows - 1),
                          offset : (-1)..MaxStartOffset,
                          height : VisibleHeights, done : {FALSE}] :
                     p.selected < p.rows}

\* ensureSelectionVisible run on a list, a selection and a scroll offset
ApplyVisible ==
    /\ probe.kind = "visible" /\ ~probe.done
    /\ probe' = [probe EXCEPT !.done = TRUE]
    /\ m' = ensureSelectionVisible(
                [IdleModel EXCEPT !.filteredTasks = RowTasks(probe.rows),
                                  !.selected = probe.selected,
                                  !.listOffset = probe.offset,
                                  !.height = probe.height])
    /\ UNCHANGED <<pending, session>>

NextVisible == ApplyVisible

SpecVisible == InitVisible /\ [][NextVisible]_vars

(***************************************************************************)
(* Specification of one start-up pass: rootCmd.Run locates the root, runs  *)
(* DiscoverTasks step by step and starts the browser.  The environment     *)
(* (whether a root is found, whether the task binary is on the path, and   *)
(* what each strategy gives when it is run) is drawn at Init; probe.calls  *)
(* logs the strategies in the order they are invoked.                      *)
(***************************************************************************)
\* what `task --list --json` can give
JsonOutcomes ==
    { Fail("exit status 1"), Ok(<<>>),
      Ok(<<Task(S_up, <<>>, <<>>, 2), Task(S_dbs, S_Db, <<>>, 1)>>) }

\* what `task --list` can give
PlainOutcomes ==
    { Fail("exit status 1"), Ok(<<>>),
      Ok(<<Task(S_go, <<>>, <<>>, 0), Task(S_up, <<>>, <<>>, 0)>>) }

\* what the direct parse of the Taskfile can give (tasks come out of a map:
\* in either order)
YamlOutcomes ==
    { Fail("no tasks map in Taskfile"), Ok(<<>>),
      Ok(<<Task(S_up, S_Db, <<S_go>>, 0), Task(S_ax, <<>>, <<S_up>>, 0)>>),
      Ok(<<Task(S_ax, <<>>, <<S_up>>, 0), Task(S_up, S_Db, <<S_go>>, 0)>>) }

NoResult == [ok |-> FALSE, err |-> "", tasks |-> <<>>]

InitDiscover ==
    /\ m = IdleModel
    /\ pending = 0
    /\ session = "probe"
    /\ probe \in [kind : {"discover"}, found : BOOLEAN, tool : BOOLEAN,
                  json : JsonOutcomes, plain : PlainOutcomes, yaml : YamlOutcomes,
                  pc : {"run"}, calls : {<<>>}, err : {"<nil>"},
                  errPlain : {"<nil>"}, res : {NoResult}]

\* rootCmd.Run: FindNearestTaskfileRoot; with no root the browser starts
FindRoot ==
    /\ probe.kind = "discover" /\ probe.pc = "run"
    /\ IF probe.found
       THEN /\ probe' = [probe EXCEPT !.pc = "lookpath"]
            /\ UNCHANGED m
       ELSE /\ probe' = [probe EXCEPT !.pc = "done"]
            /\ m' = RunModel(FALSE, probe.res, TRUE)
    /\ UNCHANGED <<pending, session>>

\* a discovery that goes on to the listings without the early check
LookPathSkipped ==
    /\ probe.kind = "discover" /\ probe.pc = "lookpath"
    /\ probe' = [probe EXCEPT !.pc = "json"]
    /\ UNCHANGED <<m, pending, session>>

\* DiscoverTasks: the early check for the task binary
LookPath ==
    /\ probe.kind = "discover" /\ probe.pc = "lookpath"
    /\ probe' = IF probe.tool
                THEN [probe EXCEPT !.pc = "json"]
                ELSE [probe EXCEPT !.pc = "start", !.res = Fail(toolMissing)]
    /\ UNCHANGED <<m, pending, session>>

\* DiscoverTasks: the structured listing, enriched and returned when usable
TryJSON ==
    /\ probe.kind = "discover" /\ probe.pc = "json"
    /\ probe' = IF Usable(probe.json)
                THEN [probe EXCEPT
                         !.pc = NextStep("json", TRUE),
                         !.calls = @ \o <<"json", "parse-enrich">>,
                         !.err = probe.json.err,
                         !.res = Ok(enrichTaskCmds(probe.json.tasks, probe.yaml))]
                ELSE [probe EXCEPT !.pc = NextStep("json", FALSE),
                                   !.calls = Append(@, "json"),
                                   !.err = probe.json.err]
    /\ UNCHANGED <<m, pending, session>>

\* DiscoverTasks: the plain listing, enriched and returned when usable
TryPlain ==
    /\ probe.kind = "discover" /\ probe.pc = "plain"
    /\ probe' = IF Usable(probe.plain)
                THEN [probe EXCEPT
                         !.pc = NextStep("plain", TRUE),
                         !.calls = @ \o <<"plain", "parse-enrich">>,
                         !.errPlain = probe.plain.err,
                         !.res = Ok(enrichTaskCmds(probe.plain.tasks, probe.yaml))]
                ELSE [probe EXCEPT !.pc = NextStep("plain", FALSE),
                                   !.calls = Append(@, "plain"),
                                   !.errPlain = probe.plain.err]
    /\ UNCHANGED <<m, pending, session>>

\* DiscoverTasks: the direct parse as listing, then the composed error
TryYAML ==
    /\ probe.kind = "discover" /\ probe.pc = "yaml"
    /\ probe' = [probe EXCEPT
                    !.pc = NextStep("yaml", Usable(probe.yaml)),
                    !.calls = Append(@, "parse-primary"),
                    !.res = IF Usable(probe.yaml) THEN Ok(probe.yaml.tasks)
                            ELSE Fail(discoveryFailed(probe.err, probe.errPlain,
                                                      probe.yaml.err))]
    /\ UNCHANGED <<m, pending, session>>

\* rootCmd.Run: the browser is started on the result of DiscoverTasks
StartBrowser ==
    /\ probe.kind = "discover" /\ probe.pc = "start"
    /\ probe' = [probe EXCEPT !.pc = "done"]
    /\ m' = RunModel(TRUE, probe.res, TRUE)
    /\ UNCHANGED <<pending, session>>

NextDiscover ==
    FindRoot \/ LookPath \/ TryJSON \/ TryPlain \/ TryYAML \/ StartBrowser

SpecDiscover == InitDiscover /\ [][NextDiscover]_vars

(***************************************************************************)
(* listViaPlain on the lines of `task --list`, and the specification of    *)
(* enrichTaskCmds: Init draws a listing and an outcome of the direct parse *)
(* and one action applies the code to them.                                *)
(***************************************************************************)
RECURSIVE TrimLeft(_)
TrimLeft(s) == IF Len(s) > 0 /\ s[1] = " " THEN TrimLeft(Tail(s)) ELSE s

RECURSIVE TrimRight(_)
TrimRight(s) ==
    IF Len(s) > 0 /\ s[Len(s)] = " " THEN TrimRight(SubSeq(s, 1, Len(s) - 1)) ELSE s

\* strings.TrimSpace on the characters used
TrimSpace(s) == TrimRight(TrimLeft(s))

\* strings.Index(l, ":") + 1: the position of the first ":", 0 when none
FirstColon(l) ==
    IF \E i \in 1..Len(l) : l[i] = ":"
    THEN CHOOSE i \in 1..Len(l) : l[i] = ":" /\ \A j \in 1..(i-1) : l[j] # ":"
    ELSE 0

\* listViaPlain: the tasks (none or one) a line of the listing gives
PlainLine(l) ==
    LET l1 == TrimSpace(l)
        l2 == TrimSpace(Tail(l1))
        idx == FirstColon(l2)
        name == IF idx > 0 THEN TrimSpace(SubSeq(l2, 1, idx - 1)) ELSE l2
        desc == IF idx > 0 THEN TrimSpace(SubSeq(l2, idx + 1, Len(l2))) ELSE <<>>
    IN  IF Len(l1) > 0 /\ l1[1] = "*" /\ name # <<>>
        THEN <<Task(name, desc, <<>>, 0)>>
        ELSE <<>>

RECURSIVE listViaPlain(_)
\* listViaPlain on the lines of the output
listViaPlain(lines) ==
    IF Len(lines) = 0 THEN <<>>
    ELSE PlainLine(lines[1]) \o listViaPlain(Tail(lines))

\* most lines of a plain listing
MaxLines == 2

\* lines of `task --list`: the header, "* up: Db", "* go:", and the task
\* "up:go" of an included Taskfile, "* up:go: Db"
PlainLines ==
    { <<"t", ":">>,
      <<"*", " ", "u", "p", ":", " ", "D", "b">>,
      <<"*", " ", "g", "o", ":">>,
      <<"*", " ", "u", "p", ":", "g", "o", ":", " ", "D", "b">> }

\* listings with distinct names, as the structured listing gives them, with
\* fields empty and filled
EnrichTasks ==
    { Task(S_up, <<>>, <<>>, 1), Task(S_up, S_go, <<S_ax>>, 1),
      Task(S_go, <<>>, <<>>, 2) }

EnrichListings ==
    {listViaPlain(ls) : ls \in {o \in SeqsUpTo(PlainLines, MaxLines) :
                                    \A i, j \in 1..Len(o) : i # j => o[i] # o[j]}}
    \cup {l \in SeqsUpTo(EnrichTasks, 2) :
             \A i, j \in 1..Len(l) : i # j => l[i].Name # l[j].Name}

\* outcomes of the direct parse (tasks come out of a map: names are distinct)
ParsedOutcomes ==
    { Fail("no Taskfile found"), Ok(<<>>),
      Ok(<<Task(S_up, S_Db, <<S_go>>, 0)>>),
      Ok(<<Task(S_up, <<>>, <<>>, 0), Task(S_go, <<>>, <<S_ax>>, 0)>>),
      Ok(<<Task(S_go, <<>>, <<S_ax>>, 0), Task(S_up, <<>>, <<>>, 0)>>) }

InitEnrich ==
    /\ m = IdleModel
    /\ pending = 0
    /\ session = "probe"
    /\ probe \in [kind : {"enrich"}, listing : EnrichListings,
                  parsed : ParsedOutcomes, out : {<<>>}, done : {FALSE}]

\* enrichTaskCmds run on the listing
ApplyEnrich ==
    /\ probe.kind = "enrich" /\ ~probe.done
    /\ probe' = [probe EXCEPT !.out = enrichTaskCmds(probe.listing, probe.parsed),
                              !.done = TRUE]
    /\ UNCHANGED <<m, pending, session>>

NextEnrich == ApplyEnrich

SpecEnrich == InitEnrich /\ [][NextEnrich]_vars

(***************************************************************************)
(* The hand-off of rootCmd.Run after the event loop has ended: the final   *)
(* model is read through ShouldRun and TaskToRun and the task CLI is       *)
(* started.  TaskToRun returns a string; rootCmd.Run takes taskCmd[0] as   *)
(* the task name and taskCmd[1:] as further arguments.  An element of a    *)
(* string is one byte, so the first argument is the first character of the *)
(* name; the rest of the name is passed on either character by character   *)
(* (the elements of taskCmd[1:]) or as one further argument.               *)
(***************************************************************************)
\* longest task name handed off
MaxNameLen == 3

\* the characters of the names handed off
HandoffChars == {"u", "p", "-", ":"}

\* the names a commit can have stored
HandoffNames == SeqsUpTo(HandoffChars, MaxNameLen) \ {<<>>}

\* the final models of the event loop: a quit without commit, or a commit
\* of a task
FinalModels ==
    {[IdleModel EXCEPT !.projectRoot = "root"]}
    \cup {[IdleModel EXCEPT !.projectRoot = "root", !.lastCommand = n,
                            !.quitAfterSelect = TRUE] : n \in HandoffNames}

\* rootCmd.Run: the argument lists built from taskCmd
ExecArgs(taskCmd) ==
    LET taskName == <<taskCmd[1]>>
        taskArgs == Tail(taskCmd)
    IN  { <<taskName>> \o [i \in 1..Len(taskArgs) |-> <<taskArgs[i]>>],
          <<taskName>> \o (IF Len(taskArgs) > 0 THEN <<taskArgs>> ELSE <<>>) }

InitHandoff ==
    /\ m \in FinalModels
    /\ pending = 0
    /\ session = "quit"
    /\ probe = [kind |-> "handoff", root |-> "root", pc |-> "exited",
                launched |-> FALSE, args |-> <<>>, dir |-> ""]

\* rootCmd.Run after p.Run has returned
Handoff ==
    /\ probe.kind = "handoff" /\ probe.pc = "exited"
    /\ IF ShouldRun(m) /\ Len(TaskToRun(m)) > 0
       THEN \E args \in ExecArgs(TaskToRun(m)) :
                probe' = [probe EXCEPT !.pc = "done", !.launched = TRUE,
                                       !.args = args,
                                       !.dir = IF probe.root # "" THEN probe.root
                                               ELSE "cwd"]
       ELSE probe' = [probe EXCEPT !.pc = "done"]
    /\ UNCHANGED <<m, pending, session>>

NextHandoff == Handoff

SpecHandoff == InitHandoff /\ [][NextHandoff]_vars

(***************************************************************************)
(* FindNearestTaskfileRoot.  Directories lie on one chain below the        *)
(* filesystem root: the directory at depth k is /d1/../dk.  A path is a    *)
(* record [abs, comps]: comps are its components, ".." among them; the     *)
(* relative path without components is ".".  A relative path is resolved   *)
(* by the operating system against the working directory.  rootCmd.Run     *)
(* starts the walk at the working directory (absolute) or at the value of  *)
(* --project as it was given (absolute or relative).                       *)
(***************************************************************************)
\* depth of the deepest directory
MaxDepth == 2

DirNames == <<"d1", "d2", "d3", "d4">>

DotDot == ".."

\* taskfileRootCandidates
taskfileRootCandidates ==
    << "Taskfile.yml", "Taskfile.yaml", "Taskfile.dist.yml", "Taskfile.dist.yaml",
       "taskfile.yml", "taskfile.yaml", "taskfile.dist.yml", "taskfile.dist.yaml" >>

\* the file names a directory of the model can hold
FileNames == {"Taskfile.yml", "taskfile.dist.yaml", "Makefile"}

Path(abs, comps) == [abs |-> abs, comps |-> comps]

\* the directory at depth k, as a sequence of names
DirAt(k) == SubSeq(DirNames, 1, k)

RECURSIVE Normalize(_, _)
\* path resolution: ".." leaves a directory for its parent (the parent of
\* the root is the root)
Normalize(done, rest) ==
    IF Len(rest) = 0 THEN done
    ELSE IF rest[1] = DotDot
         THEN Normalize(IF Len(done) = 0 THEN done
                        ELSE SubSeq(done, 1, Len(done) - 1), Tail(rest))
         ELSE Normalize(Append(done, rest[1]), Tail(rest))

\* the directory a path names when the working directory is at depth cwd
Resolve(cwd, p) ==
    IF p.abs THEN Normalize(<<>>, p.comps) ELSE Normalize(DirAt(cwd), p.comps)

\* filepath.Dir: the path without its last component; "/" and "." are
\* their own parents
Dir(p) ==
    IF Len(p.comps) = 0 THEN p
    ELSE [p EXCEPT !.comps = SubSeq(p.comps, 1, Len(p.comps) - 1)]

\* the inner loop of FindNearestTaskfileRoot: whether os.Stat succeeds for
\* some candidate name in a directory with the given files
StatSomeCandidate(files) ==
    \E i \in 1..Len(taskfileRootCandidates) : taskfileRootCandidates[i] \in files

\* the starts of the walk: [cwd, start]
LocateStarts ==
    {[cwd |-> k, start |-> Path(TRUE, DirAt(k))] : k \in 0..MaxDepth}
    \cup {[cwd |-> c, start |-> Path(FALSE, SubSeq(DirNames, c + 1, c + l))] :
            c \in 0..MaxDepth, l \in 0..MaxDepth}
    \cup {[cwd |-> c, start |-> Path(FALSE, <<DotDot>>)] : c \in 1..MaxDepth}

InitLocate ==
    /\ m = IdleModel
    /\ pending = 0
    /\ session = "probe"
    /\ \E s \in LocateStarts, files \in [0..MaxDepth -> SUBSET FileNames] :
          /\ Len(Resolve(s.cwd, s.start)) <= MaxDepth
          /\ probe = [kind |-> "locate", files |-> files, cwd |-> s.cwd,
                      start |-> s.start, dir |-> s.start, pc |-> "walk",
                      checked |-> 0, root |-> Path(FALSE, <<>>)]

\* one round of the loop of FindNearestTaskfileRoot
WalkStep ==
    /\ probe.kind = "locate" /\ probe.pc = "walk"
    /\ LET here == Len(Resolve(probe.cwd, probe.dir))
           parent == Dir(probe.dir)
       IN  IF StatSomeCandidate(probe.files[here])
           THEN probe' = [probe EXCEPT !.pc = "found", !.root = probe.dir,
                                       !.checked = @ + 1]
           ELSE IF parent = probe.dir
           THEN probe' = [probe EXCEPT !.pc = "notfound", !.checked = @ + 1]
           ELSE probe' = [probe EXCEPT !.dir = parent, !.checked = @ + 1]
    /\ UNCHANGED <<m, pending, session>>

NextLocate == WalkStep

SpecLocate == InitLocate /\ [][NextLocate]_vars

(***************************************************************************)
(* Refreshes in flight.  handleKeys returns refreshCmd and goes on with    *)
(* the next event; the runtime runs each command in a goroutine of its own *)
(* and sends the message it returns to the event loop, which takes the     *)
(* messages one at a time in the order they were sent.  A job reads the    *)
(* Taskfile when it runs, so what it delivers is what was on disk then.    *)
(* probe.jobs holds the state of each request ("running", "sent",          *)
(* "applied"), probe.queue the messages sent and not yet taken,            *)
(* probe.completed and probe.applied the requests in the order their jobs  *)
(* completed and their messages were applied.                              *)
(***************************************************************************)
\* most refresh requests of a session
MaxJobs == 3

\* what the Taskfile on disk can be: as at the start, edited, unreadable
DiskStates == {"start", "edited", "broken"}

\* taskmeta.DiscoverTasks on the Taskfile as it is on disk
DiscoverOnDisk(disk) ==
    CASE disk = "start" -> [tasks |-> ListA, err |-> FALSE]
      [] disk = "edited" -> [tasks |-> ListC, err |-> FALSE]
      [] OTHER -> [tasks |-> <<>>, err |-> TRUE]

\* the function refreshCmd returns, run with the Taskfile as it is on disk
refreshCmd(mm, disk) ==
    IF mm.projectRoot = "" THEN [tasks |-> <<>>, err |-> TRUE]
    ELSE DiscoverOnDisk(disk)

\* the keys pressed while refreshes are in flight
MeanwhileKeys == {NamedKey("down"), NamedKey("up"), NamedKey("tab")}

InitRefresh ==
    /\ m \in {RunModel(TRUE, Ok(ListA), TRUE), RunModel(FALSE, Fail(""), TRUE)}
    /\ pending = 0
    /\ session = "running"
    /\ probe = [kind |-> "refresh", disk |-> "start", jobs |-> <<>>,
                queue |-> <<>>, completed |-> <<>>, applied |-> <<>>]

\* the key r: the handler returns refreshCmd, the runtime starts the job
RequestRefresh ==
    /\ probe.kind = "refresh" /\ session = "running"
    /\ Len(probe.jobs) < MaxJobs
    /\ \E r \in {handleKeys(m, RuneKey("r"))} :
          /\ r.cmd = "refresh"
          /\ m' = r.model
    /\ pending' = pending + 1
    /\ probe' = [probe EXCEPT !.jobs = Append(@, "running")]
    /\ UNCHANGED session

\* a key handled by the loop, whatever refreshes are in flight
KeyMeanwhile ==
    /\ probe.kind = "refresh" /\ session = "running"
    /\ \E msg \in MeanwhileKeys : \E r \in {handleKeys(m, msg)} :
          /\ r.cmd = "nil"
          /\ m' = r.model
    /\ UNCHANGED <<pending, session, probe>>

\* the Taskfile is changed on disk
EditTaskfile ==
    /\ probe.kind = "refresh" /\ session = "running"
    /\ \E d \in DiskStates \ {probe.disk} : probe' = [probe EXCEPT !.disk = d]
    /\ UNCHANGED <<m, pending, session>>

\* a background job that stores its result in the model by itself
JobCompletesWriting ==
    /\ probe.kind = "refresh" /\ session = "running"
    /\ \E id \in 1..Len(probe.jobs) :
          /\ probe.jobs[id] = "running"
          /\ m' = [m EXCEPT !.tasks = refreshCmd(m, probe.disk).tasks]
          /\ probe' = [probe EXCEPT
                          !.jobs[id] = "sent",
                          !.queue = Append(@, [id |-> id,
                                               msg |-> refreshCmd(m, probe.disk)]),
                          !.completed = Append(@, id)]
    /\ pending' = pending - 1
    /\ UNCHANGED session

\* the function of refreshCmd returns in its goroutine: its message is sent
\* to the loop
JobCompletes ==
    /\ probe.kind = "refresh" /\ session = "running"
    /\ \E id \in 1..Len(probe.jobs) :
          /\ probe.jobs[id] = "running"
          /\ probe' = [probe EXCEPT
                          !.jobs[id] = "sent",
                          !.queue = Append(@, [id |-> id,
                                               msg |-> refreshCmd(m, probe.disk)]),
                          !.completed = Append(@, id)]
    /\ pending' = pending - 1
    /\ UNCHANGED <<m, session>>

\* Update, case refreshMsg, on the next message sent
DeliverCompletion ==
    /\ probe.kind = "refresh" /\ session = "running"
    /\ Len(probe.queue) > 0
    /\ m' = UpdateRefresh(m, Head(probe.queue).msg).model
    /\ probe' = [probe EXCEPT !.jobs[Head(probe.queue).id] = "applied",
                              !.queue = Tail(@),
                              !.applied = Append(@, Head(probe.queue).id)]
    /\ UNCHANGED <<pending, session>>

NextRefresh ==
    RequestRefresh \/ KeyMeanwhile \/ EditTaskfile \/ JobCompletes
        \/ DeliverCompletion

SpecRefresh == InitRefresh /\ [][NextRefresh]_vars

(***************************************************************************)
(* The member order of the tabs: NewTaskModel and toggleSortMode run on    *)
(* listings in which names and line numbers may repeat.  The description   *)
(* of a task carries its position in the listing, which tells tasks of     *)
(* equal name and line apart.                                              *)
(***************************************************************************)
\* most tasks of a sorted listing
MaxSorted == 3

\* the names and line numbers of the sorted listings
SortNames == {S_up, S_dbs, S_dbm}
SortLines == {1, 2}
SortTags == <<"a", "b", "c", "d">>

SortListings ==
    UNION { { [i \in 1..k |-> Task(n[i], <<SortTags[i]>>, <<>>, l[i])] :
                n \in [1..k -> SortNames], l \in [1..k -> SortLines] } :
            k \in 0..MaxSorted }

InitSort ==
    /\ m = IdleModel
    /\ pending = 0
    /\ session = "probe"
    /\ probe \in [kind : {"sort"}, listing : SortListings, pc : {"new"}]

\* NewTaskModel run on the listing
ApplySort ==
    /\ probe.kind = "sort" /\ probe.pc = "new"
    /\ probe' = [probe EXCEPT !.pc = "built"]
    /\ m' = NewTaskModel(probe.listing, FALSE)
    /\ UNCHANGED <<pending, session>>

\* ctrl+s on the model built
ToggleSort ==
    /\ probe.kind = "sort" /\ probe.pc \in {"built", "toggled"}
    /\ probe' = [probe EXCEPT !.pc = "toggled"]
    /\ m' = handleKeys(m, NamedKey("ctrl+s")).model
    /\ UNCHANGED <<pending, session>>

NextSort == ApplySort \/ ToggleSort

SpecSort == InitSort /\ [][NextSort]_vars

(***************************************************************************)
(* The tab strip: next-tab and previous-tab events on tabs whose labels    *)
(* differ in length.                                                       *)
(***************************************************************************)
\* most tasks (one per tab) of a strip listing
MaxStripTabs == 4

S_sandboxingx == <<"s", "a", "n", "d", "b", "o", "x", "i", "n", "g", "-", "x">>

\* task names giving the tabs main, w, db and sandboxing
StripNames == {S_up, S_wx, S_dbs, S_sandboxingx}
StripWidths == {40, 48}

\* listings of distinct names in declaration order
StripListings ==
    UNION { { [i \in 1..k |-> Task(n[i], <<>>, <<>>, i)] :
                n \in { f \in [1..k -> StripNames] :
                          \A i, j \in 1..k : i # j => f[i] # f[j] } } :
            k \in 2..MaxStripTabs }

InitStrip ==
    /\ pending = 0
    /\ session = "probe"
    /\ probe = [kind |-> "strip", pc |-> "new"]
    /\ \E l \in StripListings, w \in StripWidths :
           m = UpdateWindowSize(NewTaskModel(l, FALSE), w, 24).model

\* a next-tab key
StripNext ==
    /\ probe.kind = "strip"
    /\ \E k \in {"tab", "right"} :
           m' = handleKeys(m, NamedKey(k)).model
    /\ probe' = [probe EXCEPT !.pc = "next"]
    /\ UNCHANGED <<pending, session>>

\* a previous-tab key
StripPrev ==
    /\ probe.kind = "strip"
    /\ \E k \in {"shift+tab", "left"} :
           m' = handleKeys(m, NamedKey(k)).model
    /\ probe' = [probe EXCEPT !.pc = "prev"]
    /\ UNCHANGED <<pending, session>>

NextStrip == StripNext \/ StripPrev

SpecStrip == InitStrip /\ [][NextStrip]_vars

(***************************************************************************)
(* Two discovery passes over one unchanged project.  The tool outputs and  *)
(* the content of the Taskfile are drawn once; the tasks section of the    *)
(* file is a Go map, and each pass ranges over it in an order of its own.  *)
(***************************************************************************)
\* the orders a range over a map with the entries S can take
Perms(S) ==
    { f \in [1..Cardinality(S) -> S] :
        \A i, j \in 1..Cardinality(S) : i # j => f[i] # f[j] }

\* the tasks sections of the Taskfiles tried (names are map keys)
MapSections ==
    { {},
      {Task(S_up, S_Db, <<S_go>>, 0)},
      {Task(S_up, S_Db, <<S_go>>, 0), Task(S_wx, <<>>, <<S_ax>>, 0),
       Task(S_dbs, <<>>, <<>>, 0)} }

\* parseTaskfileYAML: the errors of a Taskfile that is missing, unreadable,
\* no YAML, or YAML without a tasks map
ParseErrors ==
    { "no Taskfile found",
      "open root/Taskfile.yml: permission denied",
      "yaml: line 1: did not find expected key",
      "no tasks map in Taskfile" }

\* the Taskfiles tried: failing to parse, or parsed with a tasks section
Taskfiles ==
    {[ok |-> FALSE, err |-> e, section |-> {}] : e \in ParseErrors}
    \cup {[ok |-> TRUE, err |-> "<nil>", section |-> s] : s \in MapSections}

\* parseTaskfileYAML: the outcomes a parse of one file can have
parseTaskfileYAML(file) ==
    IF file.ok THEN {Ok(s) : s \in Perms(file.section)} ELSE {Fail(file.err)}

\* DiscoverTasks (after the early check), given what the two tool calls and
\* the parse of this pass return
DiscoverTasks(json, plain, parsed) ==
    IF Usable(json) THEN Ok(enrichTaskCmds(json.tasks, parsed))
    ELSE IF Usable(plain) THEN Ok(enrichTaskCmds(plain.tasks, parsed))
    ELSE IF Usable(parsed) THEN Ok(parsed.tasks)
    ELSE Fail(discoveryFailed(json.err, plain.err, parsed.err))

InitTwoPass ==
    /\ m = IdleModel
    /\ pending = 0
    /\ session = "probe"
    /\ probe \in [kind : {"twopass"}, json : JsonOutcomes, plain : PlainOutcomes,
                  file : Taskfiles, results : {<<>>}, models : {<<>>}]

\* one pass: DiscoverTasks on the project, and the browser built on its result
DiscoveryPass ==
    /\ probe.kind = "twopass" /\ Len(probe.results) < 2
    /\ \E parsed \in parseTaskfileYAML(probe.file) :
         \E res \in {DiscoverTasks(probe.json, probe.plain, parsed)} :
           /\ m' = RunModel(TRUE, res, TRUE)
           /\ probe' = [probe EXCEPT !.results = Append(@, res),
                                     !.models = Append(@, m')]
    /\ UNCHANGED <<pending, session>>

NextTwoPass == DiscoveryPass

SpecTwoPass == InitTwoPass /\ [][NextTwoPass]_vars

(***************************************************************************)
(* extractCmds on the values yaml.Unmarshal gives for a command field: a   *)
(* string, another scalar or a map, or a list ([]any) of such values.      *)
(***************************************************************************)
\* deepest nesting of lists and most items of a list
MaxNesting == 2
MaxItems == 2

\* the strings tried: a command, the empty string, a blank
CmdStrings == {S_go, <<>>, <<" ">>}

\* a decoded string
StringValue(s) == [kind |-> "string", str |-> s, items |-> <<>>]

\* a decoded value that is neither string nor list (a number, a map)
OtherValue == [kind |-> "other", str |-> <<>>, items |-> <<>>]

\* a decoded list, []any
ListValue(items) == [kind |-> "list", str |-> <<>>, items |-> items]

RECURSIVE CmdValues(_)
\* the values nested d deep at most
CmdValues(d) ==
    IF d = 0 THEN {StringValue(s) : s \in CmdStrings} \cup {OtherValue}
    ELSE CmdValues(0)
         \cup {ListValue(s) : s \in SeqsUpTo(CmdValues(d - 1), MaxItems)}

\* a flattening that takes the strings of the top level only
extractCmdsShallow(v) ==
    CASE v.kind = "string" -> IF TrimSpace(v.str) # <<>> THEN <<v.str>> ELSE <<>>
      [] v.kind = "list" ->
            SelectSeq([i \in 1..Len(v.items) |-> v.items[i].str],
                      LAMBDA s : TrimSpace(s) # <<>>)
      [] OTHER -> <<>>

RECURSIVE extractCmds(_)
\* extractCmds
extractCmds(v) ==
    CASE v.kind = "string" -> IF TrimSpace(v.str) # <<>> THEN <<v.str>> ELSE <<>>
      [] v.kind = "list" ->
            IF Len(v.items) = 0 THEN <<>>
            ELSE extractCmds(v.items[1]) \o extractCmds(ListValue(Tail(v.items)))
      [] v.kind = "strings" -> v.items   \* []string: no decoded value has it
      [] OTHER -> <<>>

InitFlatten ==
    /\ m = IdleModel
    /\ pending = 0
    /\ session = "probe"
    /\ probe \in [kind : {"flatten"}, field : CmdValues(MaxNesting),
                  out : {<<>>}, done : {FALSE}]

\* extractCmds run on the field
ApplyExtract ==
    /\ probe.kind = "flatten" /\ ~probe.done
    /\ probe' = [probe EXCEPT !.out = extractCmds(probe.field), !.done = TRUE]
    /\ UNCHANGED <<m, pending, session>>

NextFlatten == ApplyExtract

SpecFlatten == InitFlatten /\ [][NextFlatten]_vars

(***************************************************************************)
(* Properties.                                                             *)
(***************************************************************************)
RECURSIVE IsSubseq(_, _)
\* whether a is b with some elements left out, in the same order
IsSubseq(a, b) ==
    IF Len(a) = 0 THEN TRUE
    ELSE IF Len(b) = 0 THEN FALSE
    ELSE IF a[1] = b[1] THEN IsSubseq(Tail(a), Tail(b))
    ELSE IsSubseq(a, Tail(b))

Reverse(s) == [i \in 1..Len(s) |-> s[Len(s) + 1 - i]]

RECURSIVE FlattenTabs(_, _)
\* the members of the tabs of a model, in tab order, then member order
FlattenTabs(mm, i) ==
    IF i > Len(mm.tabs) THEN <<>>
    ELSE TabMembers(mm, mm.tabs[i]) \o FlattenTabs(mm, i + 1)

\* whether the selection is a valid index of the visible list
ValidSelection(mm) == 0 <= mm.selected /\ mm.selected < Len(mm.filteredTasks)

\* C1: in every reachable state, if the visible list is non-empty then
\* 0 <= selected < len(visible list).
C1_SelectionInRange ==
    Len(m.filteredTasks) > 0 => ValidSelection(m)

\* C2: no sequence of events ends the loop other than a quit or a commit:
\* in particular no handler reads the visible list out of range (a panic).
C2_NoPanic ==
    session # "panic"

\* C3: after every event the selection is inside the scroll window,
\* listOffset <= selected <= listOffset + visibleRows - 1 (stated here for
\* the states whose selection is a valid index of a non-empty list).
C3_SelectionInsideWindow ==
    (Len(m.filteredTasks) > 0 /\ ValidSelection(m)) =>
        /\ m.listOffset <= m.selected
        /\ m.selected <= m.listOffset + visibleListHeight(m) - 1

\* C4: after a successful refresh (the notice "Refreshed - n tasks found" is
\* standing) the notice carries the delivered count, every delivered task is
\* a member of exactly one tab and no tab holds a task that was not delivered.
C4_RefreshRebuildsTabs ==
    m.statusMessage.text = "Refreshed" =>
        /\ m.statusMessage.count = Len(m.tasks)
        /\ \A t \in Range(m.tasks) :
              Cardinality({l \in Range(m.tabs) : t \in Range(TabMembers(m, l))}) = 1
        /\ \A l \in Range(m.tabs) : Range(TabMembers(m, l)) \subseteq Range(m.tasks)

\* two models that differ at most in the status notice
SameExceptStatus(a, b) == [a EXCEPT !.statusMessage = b.statusMessage] = b

FailedRefresh == [tasks |-> <<>>, err |-> TRUE]

\* C5: a refresh that completes with a failure changes only the status
\* notice: at every state the handler run on a failure leaves the task set,
\* tabs, active tab, visible list, selection, offsets, mode and query as they
\* are, every completion with no project root set is such a step, and every
\* completion step either reports success or changes nothing but the notice.
C5_FailedRefreshKeepsState ==
    [][ /\ SameExceptStatus(m, UpdateRefresh(m, FailedRefresh).model)
        /\ UpdateRefresh(m, FailedRefresh).model.statusMessage.text = "Refresh failed"
        /\ (pending' = pending - 1) =>
              \/ m'.statusMessage.text = "Refresh failed" /\ SameExceptStatus(m, m')
              \/ m'.statusMessage.text = "Refreshed" /\ m.projectRoot # ""
      ]_vars

\* C5 witness: a failed refresh has completed in a session that shows tasks
\* with a selection moved off the first row
C5_Witness ==
    /\ m.statusMessage.text = "Refresh failed"
    /\ Len(m.filteredTasks) > 1
    /\ m.selected > 0

\* the name, the description or one command holds the query, ignoring case
FieldContains(t, query) ==
    \/ Contains(ToLower(t.Name), ToLower(query))
    \/ Contains(ToLower(t.Desc), ToLower(query))
    \/ \E i \in 1..Len(t.Cmds) : Contains(ToLower(t.Cmds[i]), ToLower(query))

\* name, description and commands written out with single spaces between
SpacedText(t) ==
    t.Name \o <<" ">> \o t.Desc \o <<" ">> \o Join(t.Cmds, <<" ">>)

HasSpace(query) == \E i \in 1..Len(query) : query[i] = " "

\* C6 as claimed: for every source list and non-empty query (also with
\* spaces) the result is a subsequence of the source and every returned task
\* holds the query in its name, its description or its commands.
C6_FilterMatchesAField ==
    probe.done =>
        /\ IsSubseq(probe.out, probe.src)
        /\ \A i \in 1..Len(probe.out) : FieldContains(probe.out[i], probe.query)

\* C6 amended: the result is a subsequence of the source in the same order
\* and every returned task holds the query, ignoring case, in the text
\* "name description commands" joined by single spaces; a query without a
\* space is then inside the name, the description or one command.
C6_FilterMatchesSpacedText ==
    probe.done =>
        /\ IsSubseq(probe.out, probe.src)
        /\ \A i \in 1..Len(probe.out) :
              /\ Contains(ToLower(SpacedText(probe.out[i])), ToLower(probe.query))
              /\ ~HasSpace(probe.query) => FieldContains(probe.out[i], probe.query)

\* C6 witness: a query with a space kept some tasks of the source and dropped
\* others
C6_Witness ==
    /\ probe.done
    /\ HasSpace(probe.query)
    /\ Len(probe.out) > 0
    /\ Len(probe.out) < Len(probe.src)

\* C7: in every reachable state the visible list is the filter of the full
\* task set by the query when the query is non-empty (whatever tab is
\* active), and the active tab's member list, unchanged, when it is empty.
C7_VisibleListConsistent ==
    /\ m.searchQuery # <<>> => m.filteredTasks = SelectMatching(m.tasks, m.searchQuery)
    /\ m.searchQuery = <<>> => m.filteredTasks = TabMembers(m, m.activeTab)

\* C7 witness: a query shows tasks of other tabs than the active one
C7_Witness ==
    /\ m.searchQuery # <<>>
    /\ Len(m.filteredTasks) > 0
    /\ \E t \in Range(m.filteredTasks) : t \notin Range(TabMembers(m, m.activeTab))

\* the declaration-order sequence of the listing being partitioned
DeclOrder ==
    IF probe.mode = "desc" THEN Reverse(ListingTasks(probe.names, probe.mode))
    ELSE ListingTasks(probe.names, probe.mode)

\* the tasks of a sequence whose name has a given tab label, in order
OfLabel(seq, label) ==
    LET Test(t) == TabPrefix(t.Name) = label IN SelectSeq(seq, Test)

\* whether the tasks of each tab are contiguous, those of "main" first
Grouped(seq) ==
    /\ \A i, j, k \in 1..Len(seq) :
          (i < j /\ j < k /\ TabPrefix(seq[i].Name) = TabPrefix(seq[k].Name))
              => TabPrefix(seq[j].Name) = TabPrefix(seq[i].Name)
    /\ (\E i \in 1..Len(seq) : TabPrefix(seq[i].Name) = MainLabel)
          => TabPrefix(seq[1].Name) = MainLabel

\* C8 as claimed: partitioning under declaration-order policy and flattening
\* the tabs reproduces exactly the declaration-order sequence.
C8_FlattenIsDeclOrder ==
    probe.done => FlattenTabs(m, 1) = DeclOrder

\* C8 amended: flattening reproduces the declaration-order sequence regrouped
\* by tab: every task appears exactly once, the members of each tab are the
\* tasks with that label in declaration order, and the result is the
\* declaration-order sequence itself exactly when that sequence already has
\* the tasks of each tab contiguous and those of "main" first.
C8_FlattenRegroupsDeclOrder ==
    probe.done =>
        /\ Len(FlattenTabs(m, 1)) = Len(DeclOrder)
        /\ Range(FlattenTabs(m, 1)) = Range(DeclOrder)
        /\ \A i \in 1..Len(m.tabs) :
              TabMembers(m, m.tabs[i]) = OfLabel(DeclOrder, m.tabs[i])
        /\ (FlattenTabs(m, 1) = DeclOrder) <=> Grouped(DeclOrder)

\* C8 witness: a partition whose flattening moved a task, with a tab of two
\* members
C8_Witness ==
    /\ probe.done
    /\ FlattenTabs(m, 1) # DeclOrder
    /\ \E l \in Range(m.tabs) : Len(TabMembers(m, l)) > 1

CtrlS == NamedKey("ctrl+s")

\* C9: two consecutive sort toggles restore the sort policy, the order of
\* the tab labels and the member order of every tab.
C9_SortToggleTwiceRestores ==
    LET h1 == toggleSortMode(m)
        h2 == toggleSortMode(h1)
        k1 == handleKeys(m, CtrlS).model
        k2 == handleKeys(k1, CtrlS).model
    IN  /\ h1.sortMode # m.sortMode
        /\ h2.sortMode = m.sortMode /\ h2.tabs = m.tabs /\ h2.tabTasks = m.tabTasks
        /\ ~m.searchMode =>
              k2.sortMode = m.sortMode /\ k2.tabs = m.tabs /\ k2.tabTasks = m.tabTasks

\* C9 witness: a toggle has reordered the tabs and the members of a tab
C9_Witness ==
    /\ m.sortMode = "alpha"
    /\ m.tabs # toggleSortMode(m).tabs
    /\ \E l \in Range(m.tabs) : TabMembers(m, l) # TabMembers(toggleSortMode(m), l)

\* the position of the active tab after a step to the next / previous tab
NextPos(mm) == min(IndexOf(mm.tabs, mm.activeTab) + 1, Len(mm.tabs) - 1)

PrevPos(mm) == max(IndexOf(mm.tabs, mm.activeTab) - 1, 0)

ActivePos(mm) == IndexOf(mm.tabs, mm.activeTab)

\* C10: the active tab never wraps: next on the last tab and previous on the
\* first tab leave it where it is, every other next / previous moves it by
\* exactly one position (for the handlers, and for the keys bound to them).
C10_TabsNeverWrap ==
    Len(m.tabs) > 0 =>
        /\ ActivePos(m) >= 0
        /\ moveToNextTab(m).tabs = m.tabs /\ moveToPrevTab(m).tabs = m.tabs
        /\ ActivePos(moveToNextTab(m)) = NextPos(m)
        /\ ActivePos(moveToPrevTab(m)) = PrevPos(m)
        /\ ~m.searchMode =>
              /\ \A k \in {"tab", "right"} :
                    ActivePos(handleKeys(m, NamedKey(k)).model) = NextPos(m)
              /\ \A k \in {"shift+tab", "left"} :
                    ActivePos(handleKeys(m, NamedKey(k)).model) = PrevPos(m)

\* C10 witness: the session has stepped to the last of three tabs
C10_Witness ==
    /\ Len(m.tabs) > 2
    /\ ActivePos(m) = Len(m.tabs) - 1
    /\ m.tabOffset > 0
    /\ ~m.searchMode

\* C11: in every reachable state with at least one tab the active tab label
\* is one of the tab labels, and it still is after a sort toggle, after a
\* press on the tab row and after a refresh completes.
C11_ActiveTabIsATab ==
    Len(m.tabs) > 0 =>
        /\ m.activeTab \in Range(m.tabs)
        /\ toggleSortMode(m).activeTab \in Range(toggleSortMode(m).tabs)
        /\ \A msg \in MouseMsgs :
              handleMouse(m, msg).model.activeTab \in Range(m.tabs)
        /\ \A msg \in RefreshMsgs(m) :
              UpdateRefresh(m, msg).model.activeTab
                  \in Range(UpdateRefresh(m, msg).model.tabs)

\* C11 witness: after a refresh completed, under alphabetical order, a tab
\* other than the first is active
C11_Witness ==
    /\ Len(m.tabs) > 1
    /\ m.sortMode = "alpha"
    /\ m.statusMessage.text = "Refreshed"
    /\ m.activeTab # m.tabs[1]
    /\ m.activeTab \in Range(m.tabs)

\* C12: for every call of ensureSelectionVisible with 0 <= selected < rowCount
\* and visibleRows >= 1 (from any starting offset) the resulting offset has
\* offset <= selected <= offset + visibleRows - 1 and
\* 0 <= offset <= max(0, rowCount - visibleRows); the selection is not moved.
C12_EnsureVisibleWindow ==
    (probe.kind = "visible" /\ probe.done) =>
        /\ visibleListHeight(m) >= 1
        /\ m.selected = probe.selected
        /\ m.listOffset <= m.selected
        /\ m.selected <= m.listOffset + visibleListHeight(m) - 1
        /\ 0 <= m.listOffset
        /\ m.listOffset <= max(0, probe.rows - visibleListHeight(m))

\* C12 witness: a call that scrolled down to a selection below the window
C12_Witness ==
    /\ probe.kind = "visible" /\ probe.done
    /\ probe.offset >= 0
    /\ probe.selected >= probe.offset + visibleListHeight(m)
    /\ m.listOffset > probe.offset

\* the task set of a model in declaration order (by line, stably)
DeclSeq(mm) == SortStable(mm.tasks, FALSE)

\* position of the first task of a sequence with a tab label, 0 when none
FirstPos(seq, label) ==
    IF \E i \in 1..Len(seq) : TabPrefix(seq[i].Name) = label
    THEN CHOOSE i \in 1..Len(seq) :
            /\ TabPrefix(seq[i].Name) = label
            /\ \A j \in 1..(i - 1) : TabPrefix(seq[j].Name) # label
    ELSE 0

\* the tabs of a model other than "main", in tab order
OtherTabs(mm) == LET NotMain(l) == l # MainLabel IN SelectSeq(mm.tabs, NotMain)

\* C13: in every reachable state, if a tab "main" exists it is the first tab;
\* under declaration-order policy the other tabs are in first-seen order of
\* their labels in the declaration-order task sequence, under alphabetical
\* policy they are in lexicographic order.
C13_TabOrder ==
    /\ MainLabel \in Range(m.tabs) => m.tabs[1] = MainLabel
    /\ m.sortMode = "file" =>
          \A i, j \in 1..Len(OtherTabs(m)) : i < j =>
              /\ FirstPos(DeclSeq(m), OtherTabs(m)[i]) > 0
              /\ FirstPos(DeclSeq(m), OtherTabs(m)[i])
                    < FirstPos(DeclSeq(m), OtherTabs(m)[j])
    /\ m.sortMode = "alpha" =>
          \A i, j \in 1..Len(OtherTabs(m)) : i < j =>
              StrLess(OtherTabs(m)[i], OtherTabs(m)[j])

\* the label a task name stands under: the part before its first "-" when
\* it has one, "main" otherwise
NameLabel(name) ==
    IF "-" \in Range(name)
    THEN CHOOSE p \in {SubSeq(name, 1, k) : k \in 0..(Len(name) - 1)} :
            "-" \notin Range(p) /\ name[Len(p) + 1] = "-"
    ELSE MainLabel

\* whether the tabs of a model hold each task of a list once, under its label
Partitioned(mm, tasks) ==
    /\ Cardinality(Range(mm.tabs)) = Len(mm.tabs)
    /\ DOMAIN mm.tabTasks = Range(mm.tabs)
    /\ Len(FlattenTabs(mm, 1)) = Len(tasks)
    /\ \A t \in Range(tasks) :
          {l \in Range(mm.tabs) : t \in Range(TabMembers(mm, l))}
              = {NameLabel(t.Name)}

\* C14: partitioning (under either sort policy) places every task in exactly
\* one tab, the tab labelled by the part of its name before its first "-",
\* or "main" when the name has no "-"; no task is dropped or duplicated.
C14_EachTaskInItsTab ==
    (probe.kind = "partition" /\ probe.done) =>
        /\ Partitioned(m, ListingTasks(probe.names, probe.mode))
        /\ Partitioned(toggleSortMode(m), ListingTasks(probe.names, probe.mode))

\* C14 witness: a partition of a name with two "-", with a tab of two members
C14_Witness ==
    /\ probe.kind = "partition" /\ probe.done
    /\ S_dbsm \in Range(probe.names)
    /\ Len(TabMembers(m, <<"d", "b">>)) > 1

\* the names of a task list, in order
Names(tasks) == [i \in 1..Len(tasks) |-> tasks[i].Name]

\* whether a strategy returned one or more tasks without failing
GaveTasks(o) == o.ok /\ o.tasks # <<>>

\* whether DiscoverTasks has returned
Returned == probe.pc \in {"start", "done"} /\ probe.found

\* C15: the strategies are tried in strict priority order: the plain listing
\* is invoked only after the structured listing failed or gave zero tasks,
\* the direct parse is used as the listing only after both tool listings
\* failed or gave zero tasks, and when a stronger strategy gives tasks the
\* returned names are exactly its names.
C15_StrategyPriority ==
    probe.kind = "discover" =>
        /\ probe.calls \in { <<>>, <<"json">>, <<"json", "parse-enrich">>,
                             <<"json", "plain">>,
                             <<"json", "plain", "parse-enrich">>,
                             <<"json", "plain", "parse-primary">> }
        /\ "plain" \in Range(probe.calls) => ~GaveTasks(probe.json)
        /\ "parse-primary" \in Range(probe.calls) =>
              ~GaveTasks(probe.json) /\ ~GaveTasks(probe.plain)
        /\ (Returned /\ probe.tool /\ GaveTasks(probe.json)) =>
              /\ probe.res.ok
              /\ Names(probe.res.tasks) = Names(probe.json.tasks)
              /\ probe.calls = <<"json", "parse-enrich">>
        /\ (Returned /\ probe.tool /\ ~GaveTasks(probe.json)
               /\ GaveTasks(probe.plain)) =>
              /\ probe.res.ok
              /\ Names(probe.res.tasks) = Names(probe.plain.tasks)
              /\ probe.calls = <<"json", "plain", "parse-enrich">>
        /\ (Returned /\ probe.tool /\ ~GaveTasks(probe.json)
               /\ ~GaveTasks(probe.plain)) =>
              /\ probe.calls = <<"json", "plain", "parse-primary">>
              /\ probe.res.ok => Names(probe.res.tasks) = Names(probe.yaml.tasks)

\* C15 witness: the plain listing supplied the tasks after the structured
\* listing returned none, while the file had tasks too
C15_Witness ==
    /\ probe.kind = "discover" /\ probe.pc = "done"
    /\ probe.json.ok /\ probe.json.tasks = <<>>
    /\ GaveTasks(probe.yaml)
    /\ probe.calls = <<"json", "plain", "parse-enrich">>
    /\ Names(m.tasks) = Names(probe.plain.tasks)

\* whether the parsed file has a task of a name with commands / a description
ParsedCmds(name) ==
    {p.Cmds : p \in {q \in Range(probe.parsed.tasks) : q.Name = name /\ q.Cmds # <<>>}}

ParsedDesc(name) ==
    {p.Desc : p \in {q \in Range(probe.parsed.tasks) : q.Name = name /\ q.Desc # <<>>}}

\* C16: enrichment leaves the sequence of names (count and order) unchanged
\* and never changes a non-empty description or command list; an empty
\* command list (description) is filled exactly when the parsed file has a
\* task of the same name with commands (a description), and stays empty
\* otherwise.
C16_EnrichFillsEmptyFields ==
    (probe.kind = "enrich" /\ probe.done) =>
        /\ Names(probe.out) = Names(probe.listing)
        /\ \A i \in 1..Len(probe.listing) :
              LET t == probe.listing[i]
                  u == probe.out[i]
              IN  /\ u.Line = t.Line
                  /\ t.Cmds # <<>> => u.Cmds = t.Cmds
                  /\ t.Desc # <<>> => u.Desc = t.Desc
                  /\ t.Cmds = <<>> =>
                        IF probe.parsed.ok /\ ParsedCmds(t.Name) # {}
                        THEN u.Cmds \in ParsedCmds(t.Name)
                        ELSE u.Cmds = <<>>
                  /\ t.Desc = <<>> =>
                        IF probe.parsed.ok /\ ParsedDesc(t.Name) # {}
                        THEN u.Desc \in ParsedDesc(t.Name)
                        ELSE u.Desc = <<>>

\* the persistent message of the browser started after a missing tool
ToolMissingMsg == EnumerateFailedMsg(toolMissing)

\* whether the persistent message of a model survives every key
MessageStays(mm) ==
    \A msg \in KeyMsgs : handleKeys(mm, msg).model.errorMessage = mm.errorMessage

\* C17: with the task binary missing, discovery fails with the tool-missing
\* error before any listing strategy or parse of the file is run, even when
\* the listings and the file would give tasks, and the browser starts with
\* an empty task list and a non-empty persistent message.
C17_ToolMissingFailsFirst ==
    (probe.kind = "discover" /\ probe.found /\ ~probe.tool) =>
        /\ probe.calls = <<>>
        /\ probe.pc \in {"start", "done"} =>
              ~probe.res.ok /\ probe.res.err = toolMissing
        /\ probe.pc = "done" =>
              /\ m.tasks = <<>> /\ m.filteredTasks = <<>>
              /\ m.errorMessage # ""
              /\ m.errorMessage = ToolMissingMsg
              /\ MessageStays(m)

\* C17 witness: the browser started after a missing tool although the file
\* and the structured listing would have given tasks
C17_Witness ==
    /\ probe.kind = "discover" /\ probe.pc = "done"
    /\ probe.found /\ ~probe.tool
    /\ GaveTasks(probe.yaml) /\ GaveTasks(probe.json)
    /\ m.errorMessage = ToolMissingMsg

\* whether no strategy of the pass gave a task
NoStrategyGaveTasks ==
    ~GaveTasks(probe.json) /\ ~GaveTasks(probe.plain) /\ ~GaveTasks(probe.yaml)

\* C18: with the tool present and a Taskfile found, when every strategy
\* gives zero tasks the browser starts with an empty task list and a
\* non-empty persistent message that differs from the message of the
\* "no Taskfile" start and from the message of the "tool missing" start.
C18_NoTasksStateIsDistinct ==
    (probe.kind = "discover" /\ probe.pc = "done" /\ probe.found /\ probe.tool
       /\ NoStrategyGaveTasks) =>
        /\ m.tasks = <<>> /\ m.filteredTasks = <<>>
        /\ m.errorMessage # ""
        /\ m.errorMessage # NoTaskfileMsg
        /\ m.errorMessage # ToolMissingMsg
        /\ MessageStays(m)

\* C18 witness: every strategy ran without error and gave zero tasks
C18_Witness ==
    /\ probe.kind = "discover" /\ probe.pc = "done"
    /\ probe.found /\ probe.tool
    /\ probe.json = Ok(<<>>) /\ probe.plain = Ok(<<>>) /\ probe.yaml = Ok(<<>>)
    /\ m.errorMessage =
          "Failed to enumerate tasks: failed to discover tasks (json:<nil> plain:<nil> yaml:<nil>)"

\* C19: discovery returns success only with at least one task; it fails,
\* with an error that aggregates the outcomes of the structured listing, the
\* plain listing and the direct parse, exactly when all three strategies fail
\* or give zero tasks; it never returns a successful empty list.
C19_SuccessHasTasks ==
    (probe.kind = "discover" /\ Returned /\ probe.tool) =>
        /\ probe.res.ok => Len(probe.res.tasks) > 0
        /\ probe.res.ok <=> ~NoStrategyGaveTasks
        /\ ~probe.res.ok =>
              probe.res.err = "failed to discover tasks (json:" \o probe.json.err
                                \o " plain:" \o probe.plain.err
                                \o " yaml:" \o probe.yaml.err \o ")"

\* C19 witness: discovery has failed after a structured listing that ran
\* without error but gave zero tasks, and two failing strategies
C19_Witness ==
    /\ probe.kind = "discover" /\ probe.pc = "start" /\ probe.tool
    /\ probe.json = Ok(<<>>) /\ ~probe.plain.ok /\ ~probe.yaml.ok
    /\ ~probe.res.ok

\* whether a key is the commit key
IsCommitKey(msg) == msg.Str = "enter"

\* whether a pointer event is a drag landing on the row of the selection
IsCommitDrag(mm, msg) ==
    /\ mm.mouseEnabled
    /\ msg.Type = "MouseMotion"
    /\ msg.Y >= ListTop
    /\ AdjustY(mm, msg.Y) = mm.selected
    /\ AdjustY(mm, msg.Y) >= 0 /\ AdjustY(mm, msg.Y) < Len(mm.filteredTasks)

\* the accessors after an event handled in mm with result r, where commit
\* tells whether the event was a commit event; a handler that panics leaves
\* no model to read
AccessorsAfter(mm, r, commit) ==
    r.cmd # "panic" =>
        /\ ShouldRun(r.model) <=> (commit /\ r.cmd = "quit")
        /\ ShouldRun(r.model) =>
              /\ Len(mm.filteredTasks) > 0 /\ ValidSelection(mm)
              /\ TaskToRun(r.model) = mm.filteredTasks[mm.selected + 1].Name
        /\ (commit /\ Len(mm.filteredTasks) > 0) => r.cmd = "quit"
        /\ (commit /\ Len(mm.filteredTasks) = 0) =>
              /\ r.cmd = "nil"
              /\ r.model.lastCommand = <<>> /\ ~r.model.quitAfterSelect

\* C20: the accessors reflect a commit and nothing else.  While the session
\* runs ShouldRun is false; for every key and pointer event, ShouldRun is
\* true afterwards exactly when the event was a commit that ended the
\* session, TaskToRun is then the name of the task at the selected index of
\* the visible list the commit met, a commit on an empty visible list
\* returns no quit and sets no task, and a quit without commit leaves
\* ShouldRun false.
C20_AccessorsReflectCommit ==
    /\ session = "running" =>
          /\ ~ShouldRun(m) /\ TaskToRun(m) = <<>>
          /\ \A msg \in KeyMsgs :
                AccessorsAfter(m, handleKeys(m, msg), IsCommitKey(msg))
          /\ \A msg \in MouseMsgs :
                AccessorsAfter(m, UpdateMouse(m, msg), IsCommitDrag(m, msg))
    /\ session = "quit" =>
          /\ ShouldRun(m) <=> m.quitAfterSelect
          /\ ShouldRun(m) =>
                /\ ValidSelection(m)
                /\ TaskToRun(m) = m.filteredTasks[m.selected + 1].Name
          /\ ~ShouldRun(m) => TaskToRun(m) = <<>>

\* C20 witness: the session has ended through a commit on a task that is
\* not the first of the visible list
C20_Witness ==
    /\ session = "quit" /\ ShouldRun(m)
    /\ m.selected > 0
    /\ TaskToRun(m) = m.filteredTasks[m.selected + 1].Name
    /\ TaskToRun(m) # m.filteredTasks[1].Name

\* C21: after a commit the task CLI is started in the discovered root
\* directory with the full name of the chosen task as its one task argument,
\* whatever the length of the name.
C21_HandoffFullName ==
    (probe.kind = "handoff" /\ probe.pc = "done" /\ ShouldRun(m)) =>
        /\ probe.launched
        /\ probe.dir = probe.root
        /\ probe.args = <<TaskToRun(m)>>

\* whether the directory at depth k holds a recognized task-file name
HoldsTaskfile(k) == probe.files[k] \cap Range(taskfileRootCandidates) # {}

\* the depth of the directory the walk started at
StartDepth == Len(Resolve(probe.cwd, probe.start))

\* C22: the locator returns the nearest directory, the start directory
\* first and then its ancestors, that holds a recognized task-file name; it
\* fails exactly when neither the start directory nor any ancestor up to the
\* filesystem root holds one; and the walk ends (it checks no more
\* directories than the start path has components, plus one).
C22_NearestTaskfileRoot ==
    probe.kind = "locate" =>
        /\ probe.checked <= Len(probe.start.comps) + 1
        /\ probe.pc = "found" =>
              LET r == Len(Resolve(probe.cwd, probe.root))
              IN  /\ r <= StartDepth
                  /\ HoldsTaskfile(r)
                  /\ \A k \in (r + 1)..StartDepth : ~HoldsTaskfile(k)
        /\ probe.pc = "notfound" =>
              \A k \in 0..StartDepth : ~HoldsTaskfile(k)

\* C23: the key "/" pressed while browsing opens the search with an empty
\* query.
C23_SlashOpensEmptySearch ==
    (session = "running" /\ ~m.searchMode) =>
        LET r == handleKeys(m, RuneKey("/"))
        IN  /\ r.cmd = "nil"
            /\ r.model.searchMode
            /\ r.model.searchQuery = <<>>

\* the reserved single-letter keys
ReservedLetters == {"q", "j", "k", "r"}

\* C24: while browsing, a typed printable non-space character other than
\* q, j, k, r opens the search with the query equal to exactly that
\* character, whatever query was retained, and the visible list is the
\* filter by that query; a typed q, j, k or r never opens the search.
C24_TypeToSearch ==
    (session = "running" /\ ~m.searchMode) =>
        /\ \A c \in TypedRunes \ (ReservedLetters \cup {" "}) :
              LET r == handleKeys(m, RuneKey(c))
              IN  /\ r.cmd = "nil"
                  /\ r.model.searchMode
                  /\ r.model.searchQuery = <<c>>
                  /\ r.model.filteredTasks = SelectMatching(m.tasks, <<c>>)
        /\ \A c \in ReservedLetters :
              ~handleKeys(m, RuneKey(c)).model.searchMode

\* C24 witness: browsing with a retained query, where typing "d" replaces
\* the query and changes the visible list
C24_Witness ==
    /\ session = "running" /\ ~m.searchMode
    /\ m.searchQuery = <<"/">>
    /\ handleKeys(m, RuneKey("d")).model.searchQuery = <<"d">>
    /\ Len(handleKeys(m, RuneKey("d")).model.filteredTasks) > 0
    /\ handleKeys(m, RuneKey("d")).model.filteredTasks # m.filteredTasks

\* C25: Esc while searching, with an empty or a non-empty query, always
\* gives browsing with an empty query and the visible list equal to the
\* members of the active tab, and never ends the session.
C25_EscLeavesSearch ==
    (session = "running" /\ m.searchMode) =>
        LET r == handleKeys(m, NamedKey("esc"))
        IN  /\ r.cmd = "nil"
            /\ ~r.model.searchMode
            /\ r.model.searchQuery = <<>>
            /\ r.model.activeTab = m.activeTab
            /\ r.model.tabTasks = m.tabTasks
            /\ r.model.filteredTasks = TabMembers(m, m.activeTab)

\* C25 witness: searching with a query whose results are not the members of
\* the active tab, among several tabs
C25_Witness ==
    /\ session = "running" /\ m.searchMode
    /\ m.searchQuery # <<>>
    /\ Len(m.tabs) > 1
    /\ m.filteredTasks # TabMembers(m, m.activeTab)
    /\ handleKeys(m, NamedKey("esc")).model.filteredTasks = TabMembers(m, m.activeTab)

\* C26: Enter while searching always leaves search mode; with at least one
\* visible result it commits the task at the selected index as Enter while
\* browsing would (same command, same chosen task, same accessors); with no
\* visible result it does not end the session and keeps the query.
C26_EnterWhileSearching ==
    (session = "running" /\ m.searchMode) =>
        LET r == handleKeys(m, NamedKey("enter"))
            b == handleKeys([m EXCEPT !.searchMode = FALSE], NamedKey("enter"))
        IN  /\ ~r.model.searchMode
            /\ Len(m.filteredTasks) > 0 =>
                  /\ r.cmd = b.cmd
                  /\ r.cmd # "nil"
                  /\ ShouldRun(r.model) = ShouldRun(b.model)
                  /\ TaskToRun(r.model) = TaskToRun(b.model)
                  /\ r.cmd = "quit" =>
                        /\ ShouldRun(r.model)
                        /\ TaskToRun(r.model) = m.filteredTasks[m.selected + 1].Name
            /\ Len(m.filteredTasks) = 0 =>
                  /\ r.cmd = "nil"
                  /\ ~ShouldRun(r.model)
                  /\ r.model.searchQuery = m.searchQuery

\* C26 witness: the session has ended through Enter on a search result that
\* is not the first
C26_Witness ==
    /\ session = "quit" /\ ShouldRun(m)
    /\ ~m.searchMode /\ m.searchQuery # <<>>
    /\ m.selected > 0
    /\ Len(m.filteredTasks) < Len(m.tasks)

\* the navigation keys
NavKeys == {"up", "down", "pgup", "pgdown", "home", "end"}

\* the selection a navigation key asks for, from the selection, the length
\* of the visible list and the number of visible rows
NavTarget(key, sel, len, rows) ==
    CASE key = "up" -> IF sel > 0 THEN sel - 1 ELSE sel
      [] key = "down" -> IF sel < len - 1 THEN sel + 1 ELSE sel
      [] key = "pgup" -> max(0, sel - rows)
      [] key = "pgdown" -> min(len - 1, sel + rows)
      [] key = "home" -> 0
      [] key = "end" -> len - 1

\* the model after a navigation key by the rule of browsing: the selection
\* moves to the target and the scroll window follows it (up and down at the
\* end of their range change nothing)
NavRule(mm, key) ==
    LET t == NavTarget(key, mm.selected, Len(mm.filteredTasks), visibleListHeight(mm))
    IN  IF key \in {"up", "down"} /\ t = mm.selected THEN mm
        ELSE ensureSelectionVisible([mm EXCEPT !.selected = t])

\* C27: each navigation key received while searching changes the selection
\* and the scroll offset by the rule of the same key while browsing, and
\* leaves the query and the mode unchanged: in both modes the result is the
\* one rule applied to the state, and for a state with a query the result
\* equals that of the same state taken as browsing.
C27_NavigationSameInSearch ==
    session = "running" =>
        \A key \in NavKeys :
            LET r == handleKeys(m, NamedKey(key))
                b == handleKeys([m EXCEPT !.searchMode = FALSE], NamedKey(key))
            IN  /\ r.cmd = "nil"
                /\ r.model = NavRule(m, key)
                /\ r.model.searchQuery = m.searchQuery
                /\ r.model.searchMode = m.searchMode
                /\ r.model.filteredTasks = m.filteredTasks
                /\ (m.searchMode /\ m.searchQuery # <<>>) =>
                      /\ r.model.selected = b.model.selected
                      /\ r.model.listOffset = b.model.listOffset

\* C27 witness: searching with several results, where "down" moves the
\* selection and "end" moves the scroll offset
C27_Witness ==
    /\ session = "running" /\ m.searchMode
    /\ m.searchQuery # <<>>
    /\ Len(m.filteredTasks) > 1
    /\ handleKeys(m, NamedKey("down")).model.selected = m.selected + 1
    /\ handleKeys(m, NamedKey("end")).model.listOffset > m.listOffset

\* whether a task with the given name is in a sequence of tasks
HasName(tasks, name) == \E i \in 1..Len(tasks) : tasks[i].Name = name

\* C28: a sort toggle (ctrl+s while browsing) flips the sort policy and
\* rebuilds the tabs and the visible list; afterwards the selection points
\* at a task with the name of the task selected before whenever that name is
\* still in the visible list, and otherwise it is a valid index of the
\* visible list (when the list is not empty).
C28_SortToggleKeepsSelection ==
    (session = "running" /\ ~m.searchMode) =>
        LET r == handleKeys(m, CtrlS)
            kept == /\ ValidSelection(m)
                    /\ HasName(r.model.filteredTasks,
                               m.filteredTasks[m.selected + 1].Name)
        IN  /\ r.cmd = "nil"
            /\ r.model.sortMode # m.sortMode
            /\ r.model.sortMode \in {"file", "alpha"}
            /\ r.model.filteredTasks =
                  IF r.model.searchQuery # <<>>
                  THEN SelectMatching(r.model.tasks, r.model.searchQuery)
                  ELSE TabMembers(r.model, r.model.activeTab)
            /\ kept =>
                  /\ ValidSelection(r.model)
                  /\ r.model.filteredTasks[r.model.selected + 1].Name
                        = m.filteredTasks[m.selected + 1].Name
            /\ (~kept /\ Len(r.model.filteredTasks) > 0) => ValidSelection(r.model)

\* the terminal heights a resize is tried with
ResizeHeights == Heights \cup {0, 16, 40}

\* C29: a resize changes only the viewport dimensions and the scroll offset
\* (selection, active tab, tabs, task set, visible list, mode and query are
\* unchanged), and afterwards the scroll offset lies between 0 and
\* max(0, len(visible list) - visible rows).
C29_ResizeFrame ==
    session = "running" =>
        \A w \in Widths, h \in ResizeHeights :
            LET r == UpdateWindowSize(m, w, h)
            IN  /\ r.cmd = "nil"
                /\ r.model.width = w /\ r.model.height = h
                /\ r.model = [m EXCEPT !.width = w, !.height = h,
                                       !.listOffset = r.model.listOffset]
                /\ r.model.listOffset >= 0
                /\ r.model.listOffset <=
                      max(0, Len(r.model.filteredTasks) - visibleListHeight(r.model))

\* C29 witness: a state scrolled down in a small window, where a resize to
\* a larger window moves the scroll offset back
C29_Witness ==
    /\ session = "running"
    /\ m.listOffset > 0 /\ m.selected > 0
    /\ UpdateWindowSize(m, 40, 24).model.listOffset < m.listOffset
    /\ UpdateWindowSize(m, 40, 24).model.selected = m.selected

\* how often an element occurs in a sequence
Occurrences(seq, x) == Cardinality({i \in 1..Len(seq) : seq[i] = x})

\* the requests whose message is in the queue, in order
QueuedIds == [i \in 1..Len(probe.queue) |-> probe.queue[i].id]

\* each request has at most one completion, at most one message and at most
\* one application, according to the state of its job
OneCompletionEach ==
    \A id \in 1..Len(probe.jobs) :
        /\ Occurrences(probe.completed, id)
              = IF probe.jobs[id] = "running" THEN 0 ELSE 1
        /\ Occurrences(QueuedIds, id) = IF probe.jobs[id] = "sent" THEN 1 ELSE 0
        /\ Occurrences(probe.applied, id)
              = IF probe.jobs[id] = "applied" THEN 1 ELSE 0

\* the results applied so far are those of the jobs that completed first,
\* in the order of completion, and the messages waiting are the next ones
AppliedInCompletionOrder ==
    probe.applied \o QueuedIds = probe.completed

\* while a job runs the loop still runs and takes keys and further
\* requests (the conditions under which KeyMeanwhile and RequestRefresh can
\* happen)
LoopNotBlocked ==
    pending > 0 =>
        /\ session = "running"
        /\ \A msg \in MeanwhileKeys : handleKeys(m, msg).cmd = "nil"
        /\ handleKeys(m, RuneKey("r")).cmd = "refresh"

\* a step in which a job completes
CompletionStep == Len(probe'.completed) = Len(probe.completed) + 1

\* a step in which nothing happens to the jobs and the disk
PlainStep ==
    /\ probe'.jobs = probe.jobs /\ probe'.queue = probe.queue
    /\ probe'.disk = probe.disk

\* C30: a refresh request does not block the event loop.  Each request has
\* exactly one completion event, put into the one stream of events; keys
\* that arrive between a request and its completion are handled as always;
\* the completion of the background job changes nothing in the model; and
\* with several refreshes in flight the results are applied in the order the
\* jobs completed.
C30_RefreshInBackground ==
    /\ [](probe.kind = "refresh" =>
            /\ OneCompletionEach
            /\ AppliedInCompletionOrder
            /\ LoopNotBlocked
            /\ pending = Occurrences(probe.jobs, "running"))
    /\ [][probe.kind = "refresh" =>
            /\ CompletionStep => m' = m
            /\ PlainStep =>
                  \E msg \in MeanwhileKeys : m' = handleKeys(m, msg).model
            /\ m'.tasks # m.tasks =>
                  /\ Len(probe.queue) > 0
                  /\ ~Head(probe.queue).msg.err
                  /\ m'.tasks = Head(probe.queue).msg.tasks
                  /\ probe'.applied = Append(probe.applied, Head(probe.queue).id)]_vars

\* C30 witness: two refreshes were in flight together, the second request
\* completed first with the edited Taskfile, the first completed later with
\* an unreadable one, and both results have been applied in that order
C30_Witness ==
    /\ probe.kind = "refresh"
    /\ probe.completed = <<2, 1>>
    /\ probe.applied = <<2, 1>>
    /\ m.tasks = ListC
    /\ m.statusMessage.text = "Refresh failed"

\* the position of a task in a sequence of distinct tasks
PosIn(seq, t) == CHOOSE i \in 1..Len(seq) : seq[i] = t

\* the declaration-order sequence of the sorted listing: the listing in
\* order of line number, tasks of one line in listing order
DeclSorted ==
    LET l == probe.listing
        Before(i, j) == l[i].Line < l[j].Line \/ (l[i].Line = l[j].Line /\ i < j)
        Rank(i) == Cardinality({j \in 1..Len(l) : Before(j, i)}) + 1
    IN  [r \in 1..Len(l) |-> l[CHOOSE i \in 1..Len(l) : Rank(i) = r]]

\* whether a member list is in order of its key, members of equal key in
\* the order of the declaration-order sequence
OrderedStably(members, sortMode) ==
    \A i, j \in 1..Len(members) :
        i < j =>
            IF sortMode = "alpha"
            THEN /\ ~StrLess(members[j].Name, members[i].Name)
                 /\ members[i].Name = members[j].Name =>
                       PosIn(DeclSorted, members[i]) < PosIn(DeclSorted, members[j])
            ELSE /\ members[i].Line <= members[j].Line
                 /\ members[i].Line = members[j].Line =>
                       PosIn(DeclSorted, members[i]) < PosIn(DeclSorted, members[j])

\* C31: within every tab the members are in order of non-decreasing line
\* under declaration-order policy and of non-decreasing name under
\* alphabetical policy, and tasks of equal key keep their relative order of
\* the declaration-order sequence.
C31_MembersSortedStably ==
    (probe.kind = "sort" /\ probe.pc # "new") =>
        /\ m.originalTasks = DeclSorted
        /\ \A i \in 1..Len(m.tabs) :
              OrderedStably(TabMembers(m, m.tabs[i]), m.sortMode)

\* C31 witness: under alphabetical policy a tab holds two tasks of one name
\* declared on different lines and listed in the other order, and a third
\* task of a smaller name declared after them
C31_Witness ==
    /\ probe.kind = "sort" /\ probe.pc = "toggled" /\ m.sortMode = "alpha"
    /\ \E i \in 1..Len(m.tabs) :
          LET mem == TabMembers(m, m.tabs[i])
          IN  /\ Len(mem) = 3
              /\ mem[2].Name = mem[3].Name
              /\ mem[2].Line < mem[3].Line
              /\ PosIn(probe.listing, mem[3]) < PosIn(probe.listing, mem[2])
              /\ mem[1].Line >= mem[3].Line

\* renderList: the index of the entry drawn at list row a (row 0 is the
\* first row below the chrome and the search box): the entries are drawn
\* from listOffset on, each itemHeight rows high
DisplayedUnder(mm, a) == mm.listOffset + (a \div ItemHeightOf(mm))

\* whether an entry is drawn at list row a
EntryDrawnAt(mm, a) ==
    /\ a >= 0
    /\ DisplayedUnder(mm, a) < Len(mm.filteredTasks)
    /\ DisplayedUnder(mm, a) < mm.listOffset + visibleListHeight(mm)

\* C32: a press of the pointer inside the list area selects the entry drawn
\* under the pointer (the pressed row less the chrome and, when shown, the
\* search box), for every scroll offset and entry height, and the selected
\* index is then a valid index of the visible list.
C32_PressSelectsEntryUnderPointer ==
    (session = "running" /\ m.mouseEnabled) =>
        \A msg \in MouseMsgs :
            (msg.Type = "MouseLeft" /\ msg.Y >= ListTop
               /\ EntryDrawnAt(m, AdjustY(m, msg.Y))) =>
                LET r == UpdateMouse(m, msg)
                IN  /\ r.cmd = "nil"
                    /\ r.model.selected = DisplayedUnder(m, AdjustY(m, msg.Y))
                    /\ ValidSelection(r.model)

\* ensureTabVisible: the strip width it allows the tabs
StripAvailable(mm) ==
    IF mm.width - TabStripMargin < MinStripWidth THEN MinStripWidth
    ELSE mm.width - TabStripMargin

RECURSIVE StripSum(_, _, _)
\* ensureTabVisible: the summed widths of the tabs with 0-based indices lo..hi
StripSum(tabs, lo, hi) ==
    IF lo > hi THEN 0
    ELSE Len(TabName(tabs[lo + 1])) + TabChrome + StripSum(tabs, lo + 1, hi)

\* C33: after a next-tab or previous-tab event the target tab fits wholly in
\* the strip: the widths of the tabs from the tab offset up to and including
\* the target tab sum to at most the available strip width, also when the
\* labels differ in length.
C33_TargetTabFits ==
    (probe.kind = "strip" /\ probe.pc \in {"next", "prev"}) =>
        LET target == IndexOf(m.tabs, m.activeTab)
        IN  /\ m.tabOffset <= target
            /\ StripSum(m.tabs, m.tabOffset, target) <= StripAvailable(m)

\* C34: two discovery passes over the same unchanged project give the same
\* ordered task sequence, whichever strategy supplies the listing, and so the
\* same tab order and member order in the browser.
C34_PassesAgree ==
    (probe.kind = "twopass" /\ Len(probe.results) = 2) =>
        /\ probe.results[1] = probe.results[2]
        /\ probe.models[1].tabs = probe.models[2].tabs
        /\ probe.models[1].tabTasks = probe.models[2].tabTasks

\* the result of the latest pass
LastResult == probe.results[Len(probe.results)]

\* C35: a Taskfile that is missing, unreadable or malformed never aborts
\* discovery: when a tool listing gave one or more tasks, discovery succeeds
\* with that listing unchanged (no field filled) and the browser opens on it,
\* and as last resort the direct parse just counts as failed, its error
\* ending the composed error.
C35_BadTaskfileTolerated ==
    (probe.kind = "twopass" /\ Len(probe.results) > 0 /\ ~probe.file.ok) =>
        /\ Usable(probe.json) =>
               /\ LastResult = Ok(probe.json.tasks)
               /\ m.errorMessage = ""
               /\ m.tasks = SortStable(probe.json.tasks, FALSE)
        /\ (~Usable(probe.json) /\ Usable(probe.plain)) =>
               /\ LastResult = Ok(probe.plain.tasks)
               /\ m.errorMessage = ""
               /\ m.tasks = SortStable(probe.plain.tasks, FALSE)
        /\ (~Usable(probe.json) /\ ~Usable(probe.plain)) =>
               /\ LastResult = Fail(discoveryFailed(probe.json.err, probe.plain.err,
                                                    probe.file.err))
               /\ m.errorMessage = EnumerateFailedMsg(LastResult.err)

C35_Witness ==
    /\ probe.kind = "twopass" /\ Len(probe.results) = 2
    /\ probe.file.err = "yaml: line 1: did not find expected key"
    /\ Usable(probe.json)
    /\ LastResult.ok /\ Len(LastResult.tasks) = 2
    /\ \E i \in 1..2 : LastResult.tasks[i].Cmds = <<>> /\ LastResult.tasks[i].Desc = <<>>

RECURSIVE StringLeaves(_)
\* the strings at the leaves of a value, in encounter order
StringLeaves(v) ==
    IF v.kind = "string" THEN <<v.str>>
    ELSE IF v.kind = "list" /\ Len(v.items) > 0
    THEN StringLeaves(v.items[1]) \o StringLeaves(ListValue(Tail(v.items)))
    ELSE <<>>

\* C36: flattening a command field (a string, a list of strings, a nested
\* list of mixed entries) yields exactly its string leaves in encounter
\* order: it drops every leaf that is no string and nothing else.
C36_FlattenKeepsStringLeaves ==
    (probe.kind = "flatten" /\ probe.done) => probe.out = StringLeaves(probe.field)

\* C36, amended: flattening yields the string leaves that hold more than
\* white space, in encounter order: it drops the leaves that are no strings
\* and the empty and blank strings, and nothing else.
C36_FlattenKeepsNonBlankLeaves ==
    (probe.kind = "flatten" /\ probe.done) =>
        probe.out = SelectSeq(StringLeaves(probe.field),
                              LAMBDA s : TrimSpace(s) # <<>>)

C36_Witness ==
    /\ probe.kind = "flatten" /\ probe.done
    /\ probe.field = ListValue(<<ListValue(<<StringValue(<<" ">>), StringValue(S_go)>>),
                                 ListValue(<<OtherValue, StringValue(S_go)>>)>>)
    /\ probe.out = <<S_go, S_go>>

MoveLetters == {"j", "k"}

\* C38: under single-character key events the query never holds a lowercase
\* j or k: while browsing the two letters seed no query, and while searching
\* they move the selection as down and up do and leave the query unchanged.
C38_QueryWithoutMoveLetters ==
    /\ \A c \in MoveLetters : c \notin Range(m.searchQuery)
    /\ session = "running" =>
           /\ handleKeys(m, RuneKey("j")) = handleKeys(m, NamedKey("down"))
           /\ handleKeys(m, RuneKey("k")) = handleKeys(m, NamedKey("up"))
           /\ \A c \in MoveLetters :
                  LET r == handleKeys(m, RuneKey(c))
                  IN  /\ r.cmd = "nil"
                      /\ r.model.searchQuery = m.searchQuery
                      /\ r.model.searchMode = m.searchMode
                      /\ r.model.filteredTasks = m.filteredTasks

\* C38 witness: searching, with the selection moved down the results, where
\* j and k move it on and back
C38_Witness ==
    /\ session = "running" /\ m.searchMode
    /\ m.searchQuery # <<>>
    /\ m.selected = 1 /\ Len(m.filteredTasks) > 2
    /\ handleKeys(m, RuneKey("j")).model.selected = 2
    /\ handleKeys(m, RuneKey("k")).model.selected = 0

\* C39: in every reachable state with more than one tab the active tab lies
\* inside the part of the strip drawn from the tab offset: tabOffset <= index
\* of the active tab < len(tabs), also after sort toggles, tab clicks,
\* resizes and refresh completions.
C39_ActiveTabInStrip ==
    Len(m.tabs) > 1 =>
        /\ m.tabOffset <= IndexOf(m.tabs, m.activeTab)
        /\ IndexOf(m.tabs, m.activeTab) < Len(m.tabs)

\* C40: Esc while browsing with a retained non-empty query clears the query
\* and shows the members of the active tab again, without ending the
\* session; it ends the session, with no task chosen, exactly when the query
\* is already empty.
C40_EscWhileBrowsing ==
    (session = "running" /\ ~m.searchMode) =>
        LET r == handleKeys(m, NamedKey("esc"))
        IN  /\ (r.cmd = "quit") = (m.searchQuery = <<>>)
            /\ r.cmd \in {"quit", "nil"}
            /\ ~ShouldRun(r.model)
            /\ TaskToRun(r.model) = <<>>
            /\ ~r.model.searchMode
            /\ r.model.searchQuery = <<>>
            /\ r.model.activeTab = m.activeTab
            /\ r.model.filteredTasks = IF m.searchQuery # <<>>
                                       THEN TabMembers(m, m.activeTab)
                                       ELSE m.filteredTasks

\* C40 witness: browsing among several tabs with a query kept from a search
\* that Enter left without a result; Esc shows the active tab again
C40_Witness ==
    /\ session = "running" /\ ~m.searchMode
    /\ m.searchQuery # <<>>
    /\ Len(m.tabs) > 1
    /\ m.filteredTasks = <<>>
    /\ handleKeys(m, NamedKey("esc")).cmd = "nil"
    /\ Len(handleKeys(m, NamedKey("esc")).model.filteredTasks) > 0
    /\ handleKeys(handleKeys(m, NamedKey("esc")).model, NamedKey("esc")).cmd = "quit"

====
